---- MODULE Spec2Model ----
(***************************************************************************)
(* State-machine model of the incremental data pipeline:                   *)
(*   scripts/pipeline.py         staleness detection                       *)
(*   scripts/fetch_data.py       fetch run and data manifest               *)
(*   scripts/render_notebooks.py render run and render manifest            *)
(*   scripts/upload_r2.py        content-addressed publisher               *)
(* Each subsystem has its own specification (SpecPublish, ...); the        *)
(* variables of the other subsystems keep their initial value in it.       *)
(***************************************************************************)
EXTENDS Integers, Sequences, FiniteSets, TLC

VARIABLES
    stale,       \* staleness detector: one check_staleness call, inputs and result
    today,       \* fetch: the current UTC day
    cfg,         \* fetch: config["dates"] of pipeline.yaml
    qsrc,        \* fetch: query id -> version of the query function's source
    dirs,        \* fetch: dates that have a directory under the data directory
    dmfile,      \* fetch: the data manifest file, notebooks/data/manifest.json
    fr,          \* fetch: the running fetch_data.main call
    ms,          \* manifest store: the last update_manifest call on the data directory
    rd,          \* date resolver: a resolve_dates call, its arguments and result
    ov,          \* overlap: two fetch runs on one data directory
    sc,          \* schema: one call on a persisted manifest with absent fields
    mf,          \* manifest file: its bytes under one writer and one reader
    dd,          \* copy_data_to_dist: the dates whose parquet files are in site/dist
    qf,          \* fingerprint: a query function's source text under formatting edits
    nbsrc,       \* render: notebook id -> version of the notebook's source
    rmfile,      \* render: the render manifest file, site/public/rendered/manifest.json
    html,        \* render: HTML path -> the date and run it was rendered for
    rr,          \* render: the running render_notebooks.main call
    dist,        \* publisher: the artifact tree on disk, path -> content (0: no file)
    blobs,       \* publisher: blob keys present in the remote store
    manifests,   \* publisher: deployment name -> stored manifest object
    pub,         \* publisher: the running upload_site call
    published    \* publisher: names published (run completed) since dist last changed

staleVars == <<stale>>
fetchVars == <<today, qsrc, cfg, dirs, dmfile, fr>>
storeVars == <<ms>>
resolveVars == <<rd>>
fileVars == <<mf>>
schemaVars == <<sc>>
overlapVars == <<ov>>
copyVars == <<dd>>
hashVars == <<qf>>
renderVars == <<nbsrc, rmfile, html, rr>>
pubVars == <<dist, blobs, manifests, pub, published>>

vars == <<stale, today, qsrc, cfg, dirs, dmfile, fr, ms, rd, mf, sc, ov, dd, qf, nbsrc, rmfile, html, rr, dist, blobs, manifests, pub, published>>

\* Python's None, for an optional argument, date or hash that is absent.
None == 0
EmptyFn == [x \in {} |-> None]

RECURSIVE sort_desc(_)
\* sorted(S, reverse=True) of a set of dates.
sort_desc(S) ==
    IF S = {} THEN <<>>
    ELSE LET m == CHOOSE x \in S : \A y \in S : y <= x
         IN  <<m>> \o sort_desc(S \ {m})

SeqRange(s) == {s[i] : i \in DOMAIN s}

\* A future the as_completed loop has handled keeps its outcome.
Seen(status) == IF status = "ok" THEN "seen" ELSE "error_seen"
Handled == {"seen", "error_seen"}
Failed == {"error", "error_seen"}

\* What an action of one subsystem leaves alone: the other subsystems.
StaleFrame == UNCHANGED <<fetchVars, storeVars, resolveVars, fileVars, renderVars, pubVars, schemaVars, overlapVars, copyVars, hashVars>>
FetchFrame == UNCHANGED <<staleVars, storeVars, resolveVars, fileVars, renderVars, pubVars, schemaVars, overlapVars, copyVars, hashVars>>
StoreFrame ==
    UNCHANGED <<staleVars, today, qsrc, cfg, fr, resolveVars, fileVars, schemaVars,
                overlapVars, renderVars, pubVars, copyVars, hashVars>>
ResolveFrame == UNCHANGED <<staleVars, fetchVars, storeVars, fileVars, renderVars, pubVars, schemaVars, overlapVars, copyVars, hashVars>>
FileFrame == UNCHANGED <<staleVars, fetchVars, storeVars, resolveVars, renderVars, pubVars, schemaVars, overlapVars, copyVars, hashVars>>
SchemaFrame ==
    UNCHANGED <<staleVars, fetchVars, storeVars, resolveVars, fileVars, overlapVars,
                renderVars, pubVars, copyVars, hashVars>>
OverlapFrame ==
    UNCHANGED <<staleVars, fetchVars, storeVars, resolveVars, fileVars, schemaVars,
                renderVars, pubVars, copyVars, hashVars>>
CopyFrame ==
    UNCHANGED <<staleVars, fetchVars, storeVars, resolveVars, fileVars, schemaVars,
                overlapVars, renderVars, pubVars, hashVars>>
HashFrame ==
    UNCHANGED <<staleVars, fetchVars, storeVars, resolveVars, fileVars, schemaVars,
                overlapVars, copyVars, renderVars, pubVars>>
RenderFrame == UNCHANGED <<staleVars, fetchVars, storeVars, resolveVars, fileVars, pubVars, schemaVars, overlapVars, copyVars, hashVars>>
PubFrame == UNCHANGED <<staleVars, fetchVars, storeVars, resolveVars, fileVars, renderVars, schemaVars, overlapVars, copyVars, hashVars>>

(***************************************************************************)
(* Hash engine and staleness detector (scripts/pipeline.py)                *)
(***************************************************************************)

\* Bounds shared by the staleness, fetch and render models.
NumQueries == 2
NumLogic == 2
MaxDay == 2

\* config["queries"]: the query ids, in the order the configuration lists them.
Queries == 1..NumQueries
\* Versions of a query function's logic; Broken is a function that cannot be
\* hashed: the import, inspect.getsource or ast.parse raises. Whether a call
\* of it still returns is for fetch_query to find out.
Broken == 0
Logic == 1..NumLogic
Days == 1..MaxDay

\* hashlib.sha256(ast_dump.encode()).hexdigest()[:12] of a function whose
\* logic is version v.
compute_query_hash(v) == <<"sha256", v>>
\* The sentinel compute_all_query_hashes stores for a query it could not hash.
ErrorHash == <<"error">>
\* stored.get("query_hash") of a pair without a record.
NoHash == <<>>
AllHashes == {compute_query_hash(v) : v \in Logic} \cup {ErrorHash}

RECURSIVE hashes_until_error(_, _)
hashes_until_error(src, q) ==
    IF q > NumQueries THEN <<>>
    ELSE IF src[q] = Broken THEN [i \in q..NumQueries |-> ErrorHash]
    ELSE <<compute_query_hash(src[q])>> \o hashes_until_error(src, q + 1)

compute_all_query_hashes_halting(src) ==
    LET h == hashes_until_error(src, 1)
    IN  [q \in Queries |-> IF q \in DOMAIN h THEN h[q] ELSE ErrorHash]

\* compute_all_query_hashes: "except Exception" stores "error" for the query
\* and the loop goes on.
compute_all_query_hashes(src) ==
    [q \in Queries |->
        IF src[q] = Broken THEN ErrorHash ELSE compute_query_hash(src[q])]

\* The content of a data manifest: load_data_manifest's empty structure.
EmptyManifest ==
    [dates |-> <<>>, latest |-> None, query_hashes |-> EmptyFn,
     date_queries |-> EmptyFn]

NoManifestFile == [exists |-> FALSE, m |-> EmptyManifest]

load_data_manifest(file) == IF file.exists THEN file.m ELSE EmptyManifest

\* manifest.get("date_queries", {}).get(date, {}).get(query_id, {}).get("query_hash")
stored_hash_of(m, date, query_id) ==
    IF date \in DOMAIN m.date_queries /\ query_id \in DOMAIN m.date_queries[date]
    THEN m.date_queries[date][query_id].query_hash
    ELSE NoHash

staleness_of_missing_only(stored_hash, current_hash) ==
    IF stored_hash = NoHash THEN "data_missing" ELSE "fresh"

\* The branches of check_staleness for one (date, query).
staleness_of(stored_hash, current_hash) ==
    IF stored_hash = NoHash THEN "data_missing"
    ELSE IF stored_hash # current_hash THEN "query_changed"
    ELSE "fresh"

StalenessReport(date, query_id, reason, current_hash, stored_hash) ==
    [date |-> date, query_id |-> query_id, reason |-> reason,
     current_hash |-> current_hash, stored_hash |-> stored_hash]

RECURSIVE reports_of_date(_, _, _, _)
\* The inner loop "for query_id in config['queries']", from query_id on.
reports_of_date(current_hashes, m, date, query_id) ==
    IF query_id > NumQueries THEN <<>>
    ELSE LET stored_hash == stored_hash_of(m, date, query_id)
             current_hash == current_hashes[query_id]
             reason == staleness_of(stored_hash, current_hash)
             rest == reports_of_date(current_hashes, m, date, query_id + 1)
         IN  IF reason = "data_missing"
             THEN <<StalenessReport(date, query_id, reason, current_hash, NoHash)>> \o rest
             ELSE IF reason = "query_changed"
             THEN <<StalenessReport(date, query_id, reason, current_hash, stored_hash)>> \o rest
             ELSE rest

RECURSIVE check_staleness(_, _, _)
check_staleness(current_hashes, m, dates) ==
    IF dates = <<>> THEN <<>>
    ELSE reports_of_date(current_hashes, m, Head(dates), 1)
         \o check_staleness(current_hashes, m, Tail(dates))

\* --- one check_staleness call on arbitrary inputs

NumStaleDates == 2
StaleDates == 1..NumStaleDates

\* The date lists a caller passes: no date twice, in any order.
DateLists ==
    UNION {{s \in [1..n -> StaleDates] : \A i, j \in 1..n : i # j => s[i] # s[j]} :
             n \in 0..NumStaleDates}

\* The manifest whose record of (d, q) stores c[d, q]; NoHash: no record.
ManifestOf(c) ==
    LET ds == {d \in StaleDates : \E q \in Queries : c[d, q] # NoHash}
    IN  [EmptyManifest EXCEPT
           !.dates = sort_desc(ds),
           !.date_queries =
               [d \in ds |->
                  [q \in {q \in Queries : c[d, q] # NoHash} |->
                     [query_hash |-> c[d, q], fetched_at |-> 1]]]]

StaleIdle ==
    [pc |-> "idle", current_hashes |-> EmptyFn, manifest |-> EmptyManifest,
     dates |-> <<>>, reports |-> <<>>]

InitStale ==
    \E c \in [StaleDates \X Queries -> AllHashes \cup {NoHash}],
       h \in [Queries -> AllHashes], ds \in DateLists :
        stale = [StaleIdle EXCEPT !.pc = "call", !.current_hashes = h,
                                  !.manifest = ManifestOf(c), !.dates = ds]

CheckStaleness ==
    /\ stale.pc = "call"
    /\ stale' = [stale EXCEPT
                   !.pc = "returned",
                   !.reports = check_staleness(stale.current_hashes, stale.manifest,
                                               stale.dates)]
    /\ StaleFrame

(***************************************************************************)
(* compute_query_hash on the text of a query function (scripts/pipeline.py)*)
(***************************************************************************)

NumTexts == 2
MaxSourceLen == 3
MaxSourceEdits == 2

\* The body of a function as inspect.getsource gives it, line by line: a
\* blank line, a comment, a statement that is a bare string literal, or
\* another statement.  id is the literal's text or the statement's logic, sp
\* the spacing the line is written with.
Texts == 1..NumTexts
Line(kind, id, sp) == [kind |-> kind, id |-> id, sp |-> sp]
Trivia == {Line("blank", 0, 0), Line("comment", 1, 0)}
Statements == {Line("str", t, 0) : t \in Texts} \cup {Line("stmt", 1, sp) : sp \in {0, 1}}

is_statement(line) == line.kind \in {"str", "stmt"}

\* ast.parse: the statements in order; blank lines, comments and spacing are
\* not in the tree.
ast_parse(source) ==
    LET stmts == SelectSeq(source, is_statement)
    IN  [i \in DOMAIN stmts |-> [kind |-> stmts[i].kind, id |-> stmts[i].id]]

\* "if node.body and isinstance(node.body[0], ast.Expr) and ... str:
\*      node.body = node.body[1:]"
remove_docstring(body) ==
    IF body # <<>> /\ body[1].kind = "str" THEN Tail(body) ELSE body

\* ast.dump(tree, annotate_fields=True): the tree written out, node by node.
ast_dump(body) == <<"FunctionDef">> \o [i \in DOMAIN body |-> <<body[i].kind, body[i].id>>]

\* hashlib.sha256(ast_dump.encode()).hexdigest()[:12]
sha256_12(text) == <<"sha256", text>>

\* compute_query_hash on the source text of the function.
compute_source_hash(source) == sha256_12(ast_dump(remove_docstring(ast_parse(source))))

\* The index of the first statement of the source, 0 if there is none.
first_statement(source) ==
    IF \E i \in DOMAIN source : is_statement(source[i])
    THEN CHOOSE i \in DOMAIN source :
            is_statement(source[i]) /\ \A j \in 1..(i - 1) : ~is_statement(source[j])
    ELSE 0

has_docstring(source) ==
    first_statement(source) # 0 /\ source[first_statement(source)].kind = "str"

insert_at(source, i, line) ==
    SubSeq(source, 1, i - 1) \o <<line>> \o SubSeq(source, i, Len(source))

remove_at(source, i) == SubSeq(source, 1, i - 1) \o SubSeq(source, i + 1, Len(source))

\* The function bodies Python accepts: at least one statement.
Sources ==
    {src \in UNION {[1..n -> Trivia \cup Statements] : n \in 1..MaxSourceLen} :
        \E i \in DOMAIN src : is_statement(src[i])}

HashIdle == [pc |-> "idle", source |-> <<>>, edits |-> 0, first |-> <<>>, hash |-> <<>>]

\* A run computes the fingerprint of the function as it is now.
ComputeHash ==
    /\ qf.pc = "idle"
    /\ LET h == compute_source_hash(qf.source)
       IN  qf' = [qf EXCEPT !.hash = h, !.first = IF @ = <<>> THEN h ELSE @]
    /\ HashFrame

\* A blank line or a comment is added before line i.
InsertTrivia(i, line) ==
    /\ qf.pc = "idle"
    /\ qf.edits < MaxSourceEdits
    /\ Len(qf.source) < MaxSourceLen
    /\ i \in 1..(Len(qf.source) + 1)
    /\ qf' = [qf EXCEPT !.source = insert_at(@, i, line), !.edits = @ + 1]
    /\ HashFrame

\* The blank line or comment at line i is deleted.
RemoveTrivia(i) ==
    /\ qf.pc = "idle"
    /\ qf.edits < MaxSourceEdits
    /\ i \in DOMAIN qf.source
    /\ qf.source[i] \in Trivia
    /\ qf' = [qf EXCEPT !.source = remove_at(@, i), !.edits = @ + 1]
    /\ HashFrame

\* The statement at line i is written with other spacing.
Respace(i) ==
    /\ qf.pc = "idle"
    /\ qf.edits < MaxSourceEdits
    /\ i \in DOMAIN qf.source
    /\ qf.source[i].kind = "stmt"
    /\ qf' = [qf EXCEPT !.source[i].sp = 1 - @, !.edits = @ + 1]
    /\ HashFrame

\* The docstring is reworded, or one is written for a function without.
WriteDocstring(t) ==
    /\ qf.pc = "idle"
    /\ qf.edits < MaxSourceEdits
    /\ LET i == first_statement(qf.source)
       IN  IF has_docstring(qf.source)
           THEN /\ qf.source[i].id # t
                /\ qf' = [qf EXCEPT !.source[i].id = t, !.edits = @ + 1]
           ELSE /\ Len(qf.source) < MaxSourceLen
                /\ qf' = [qf EXCEPT !.source = insert_at(@, i, Line("str", t, 0)),
                                    !.edits = @ + 1]
    /\ HashFrame

\* The docstring is deleted; the function keeps a statement.
DeleteDocstring ==
    /\ qf.pc = "idle"
    /\ qf.edits < MaxSourceEdits
    /\ has_docstring(qf.source)
    /\ Len(ast_parse(qf.source)) > 1
    /\ qf' = [qf EXCEPT !.source = remove_at(@, first_statement(qf.source)),
                        !.edits = @ + 1]
    /\ HashFrame

(***************************************************************************)
(* Date resolver (scripts/pipeline.py)                                     *)
(***************************************************************************)

RECURSIVE rolling_dates_exclusive(_, _, _, _)
rolling_dates_exclusive(i, window, start_limit, now) ==
    IF i > window THEN <<>>
    ELSE LET date == now - i
         IN  IF start_limit # None /\ date <= start_limit THEN <<>>
             ELSE <<date>> \o rolling_dates_exclusive(i + 1, window, start_limit, now)

RECURSIVE rolling_dates(_, _, _, _)
\* "for i in range(1, window + 1)" from i on, with its break at the start limit.
rolling_dates(i, window, start_limit, now) ==
    IF i > window THEN <<>>
    ELSE LET date == now - i
         IN  IF start_limit # None /\ date < start_limit THEN <<>>
             ELSE <<date>> \o rolling_dates(i + 1, window, start_limit, now)

RECURSIVE sorted_reverse(_)
\* sorted(list, reverse=True): every element kept.
sorted_reverse(s) ==
    IF s = <<>> THEN <<>>
    ELSE LET i == CHOOSE i \in DOMAIN s : \A j \in DOMAIN s : s[j] <= s[i]
         IN  <<s[i]>> \o sorted_reverse(SubSeq(s, 1, i - 1) \o SubSeq(s, i + 1, Len(s)))

\* resolve_dates(config, override_date) on day now: the list, or the ValueError.
resolve_dates(config, override_date, now) ==
    IF override_date # None THEN [ok |-> TRUE, dates |-> <<override_date>>]
    ELSE IF config.mode = "rolling"
    THEN [ok |-> TRUE, dates |-> rolling_dates(1, config.window, config.start, now)]
    ELSE IF config.mode = "range"
    THEN LET end == IF config.end # None THEN config.end ELSE now - 1
             n == IF end >= config.start THEN end - config.start + 1 ELSE 0
         IN  [ok |-> TRUE,
              dates |-> sorted_reverse([i \in 1..n |-> config.start + i - 1])]
    ELSE IF config.mode = "list"
    THEN [ok |-> TRUE, dates |-> sorted_reverse(config.list)]
    ELSE [ok |-> FALSE, dates |-> <<>>]

DateConfig(mode, window, start, end, list) ==
    [mode |-> mode, window |-> window, start |-> start, end |-> end, list |-> list]

\* Bounds of the resolve_dates calls.
NumResolveDays == 3
MaxWindow == 3
MaxListLen == 3

ResolveDays == 1..NumResolveDays
\* The day of the call: yesterday is the newest day.
ResolveToday == NumResolveDays + 1

\* The lists a config can hold: any order, repeats included.
DateListsOf(n) == UNION {[1..k -> ResolveDays] : k \in 0..n}

\* config["dates"] in its three modes, and a mode the code does not know.
ResolveConfigs ==
    {DateConfig("rolling", w, st, None, <<>>) :
        w \in 0..MaxWindow, st \in ResolveDays \cup {None}}
    \cup {DateConfig("range", None, st, en, <<>>) :
        st \in ResolveDays, en \in ResolveDays \cup {None}}
    \cup {DateConfig("list", None, None, None, l) : l \in DateListsOf(MaxListLen)}
    \cup {DateConfig("weekly", None, None, None, <<>>)}

ResolveIdle ==
    [pc |-> "idle", config |-> DateConfig("rolling", 0, None, None, <<>>),
     override_date |-> None, result |-> [ok |-> TRUE, dates |-> <<>>]]

\* A call resolve_dates(config, override_date) is about to be made.
InitResolveCall ==
    \E config \in ResolveConfigs, override_date \in ResolveDays \cup {None} :
       rd = [ResolveIdle EXCEPT !.pc = "call", !.config = config,
                                !.override_date = override_date]

\* The call returns its list or raises ValueError.
ResolveDates ==
    /\ rd.pc = "call"
    /\ LET r == resolve_dates(rd.config, rd.override_date, ResolveToday)
       IN  rd' = [rd EXCEPT !.pc = IF r.ok THEN "returned" ELSE "raised",
                            !.result = r]
    /\ ResolveFrame

(***************************************************************************)
(* Fetch run (scripts/fetch_data.py)                                       *)
(***************************************************************************)

MaxFetchRuns == 2
\* Largest --max-days of a run.
MaxKeep == 1
\* Edits of query sources between the runs.
MaxEdits == 1

\* The day the runs happen on: every day of Days is in the past.
FirstToday == MaxDay + 1

\* config["dates"] of pipeline.yaml in the fetch and render models.
PipelineDates ==
    {DateConfig("rolling", 1, None, None, <<>>),
     DateConfig("list", None, None, None, <<1, MaxDay>>)}

\* An id --query may name that the configuration does not hold.
UnknownQuery == NumQueries + 1

FetchArgs ==
    [date : Days \cup {None}, sync : BOOLEAN, check_only : BOOLEAN,
     query : Queries \cup {None, UnknownQuery}, max_days : 0..MaxKeep]

FetchIdle ==
    [pc |-> "idle", run |-> 0, edits |-> 0, sync |-> FALSE, max_days |-> None,
     query_hashes |-> EmptyFn, dates |-> <<>>, to_fetch |-> EmptyFn,
     attempted |-> {}, succeeded |-> {}, calls |-> 0, all_results |-> EmptyFn,
     exit |-> None, file0 |-> NoManifestFile]

FetchEnded == {"idle", "returned", "raised", "crashed"}

\* "Determine what to fetch": date -> the query ids to fetch for it.
to_fetch_of(args, stale_reports, now) ==
    LET all == IF args.sync /\ stale_reports # <<>>
               THEN [d \in {stale_reports[i].date : i \in DOMAIN stale_reports} |->
                       {stale_reports[i].query_id :
                          i \in {j \in DOMAIN stale_reports : stale_reports[j].date = d}}]
               ELSE IF args.date # None
               THEN [d \in {args.date} |-> Queries]
               ELSE [d \in {now - 1} |-> Queries]
    IN  IF args.query # None
        THEN [d \in {d \in DOMAIN all : args.query \in all[d]} |-> {args.query}]
        ELSE all

Items(to_fetch) == UNION {{<<d, q>> : q \in to_fetch[d]} : d \in DOMAIN to_fetch}

\* The next (date, query) of "for date, query_ids in sorted(to_fetch.items())"
\* and fetch_date's loop over config["queries"].
NextItem(rem) ==
    CHOOSE it \in rem :
        \A o \in rem : it[1] < o[1] \/ (it[1] = o[1] /\ it[2] <= o[2])

\* main up to the fetch loop.
StartFetch(args) ==
    /\ fr.pc \in FetchEnded
    /\ fr.run < MaxFetchRuns
    /\ LET query_hashes == compute_all_query_hashes(qsrc)
           resolved == resolve_dates(cfg, args.date, today)
           manifest == load_data_manifest(dmfile)
           stale_reports == check_staleness(query_hashes, manifest, resolved.dates)
           to_fetch == to_fetch_of(args, stale_reports, today)
           run == [FetchIdle EXCEPT !.run = fr.run + 1, !.edits = fr.edits,
                                    !.sync = args.sync,
                                    !.max_days = args.max_days,
                                    !.query_hashes = query_hashes,
                                    !.dates = resolved.dates, !.file0 = dmfile]
       IN  fr' = IF ~resolved.ok
                 THEN [run EXCEPT !.pc = "raised", !.exit = 1]
                 ELSE IF args.check_only
                 THEN [run EXCEPT !.pc = "returned",
                                  !.exit = IF stale_reports # <<>> THEN 1 ELSE 0]
                 ELSE IF DOMAIN to_fetch = {}
                 THEN [run EXCEPT !.pc = "returned", !.exit = 0]
                 ELSE [run EXCEPT !.pc = "fetching", !.to_fetch = to_fetch,
                                  !.all_results = [d \in DOMAIN to_fetch |-> EmptyFn]]
    /\ UNCHANGED <<today, qsrc, cfg, dirs, dmfile>>
    /\ FetchFrame

fetch_date_results_always(results, query_id, ok, metadata) ==
    [q \in DOMAIN results \cup {query_id} |->
        IF q = query_id THEN metadata ELSE results[q]]

\* fetch_date: "results[query_id] = metadata" is reached only when fetch_query
\* returned.
fetch_date_results(results, query_id, ok, metadata) ==
    IF ok
    THEN [q \in DOMAIN results \cup {query_id} |->
            IF q = query_id THEN metadata ELSE results[q]]
    ELSE results

on_fetch_error_raise == "raise"

\* fetch_date: "except Exception as e: print(...)", the loop goes on.
on_fetch_error == "continue"

\* One fetch_query call: the date directory is made, then the producer
\* returns (ok) or raises.
FetchItem(ok) ==
    /\ fr.pc = "fetching"
    /\ LET it == NextItem(Items(fr.to_fetch) \ fr.attempted)
           d == it[1]
           q == it[2]
           metadata == [query_hash |-> fr.query_hashes[q], fetched_at |-> fr.run]
           attempted == fr.attempted \cup {it}
           raised == ~ok /\ on_fetch_error = "raise"
       IN  /\ fr' = [fr EXCEPT
                       !.attempted = attempted,
                       !.calls = @ + 1,
                       !.succeeded = IF ok THEN @ \cup {it} ELSE @,
                       !.all_results[d] = fetch_date_results(@, q, ok, metadata),
                       !.pc = IF raised THEN "raised"
                              ELSE IF attempted = Items(fr.to_fetch) THEN "update"
                              ELSE "fetching",
                       !.exit = IF raised THEN 1 ELSE @]
           /\ dirs' = dirs \cup {d}
    /\ UNCHANGED <<today, qsrc, cfg, dmfile>>
    /\ FetchFrame

merge_whole_date(date_queries, date_results) ==
    [d \in DOMAIN date_queries \cup DOMAIN date_results |->
       IF d \in DOMAIN date_results THEN date_results[d] ELSE date_queries[d]]

\* "Update date_queries with new results": dict.update per date.
merge_results(date_queries, date_results) ==
    [d \in DOMAIN date_queries \cup DOMAIN date_results |->
       LET old == IF d \in DOMAIN date_queries THEN date_queries[d] ELSE EmptyFn
           new == IF d \in DOMAIN date_results THEN date_results[d] ELSE EmptyFn
       IN  [q \in DOMAIN old \cup DOMAIN new |->
              IF q \in DOMAIN new THEN new[q] ELSE old[q]]]

all_dates_trusting(m0, dirset) == dirset \cup SeqRange(m0.dates)

\* "Find all dates from directories": the names output_dir.iterdir() yields;
\* the loaded manifest's "dates" are not read.
all_dates(m0, dirset) == dirset

dates_to_remove_inclusive(dateset, max_days, now) ==
    IF max_days # 0 THEN {d \in dateset : d <= now - max_days} ELSE {}

\* "if max_days:" the dates before the cutoff, now minus max_days days.
dates_to_remove_of(dateset, max_days, now) ==
    IF max_days # 0 THEN {d \in dateset : d < now - max_days} ELSE {}

latest_of_oldest(dates) == IF dates # <<>> THEN dates[Len(dates)] ELSE None

\* manifest["latest"] = dates[0] if dates else None
latest_of(dates) == IF dates # <<>> THEN dates[1] ELSE None

\* update_manifest(config, output_dir, date_results, query_hashes, max_days) on
\* day now: the manifest file it writes and the directories it leaves.
update_manifest(file, dirset, date_results, query_hashes, max_days, now) ==
    LET m0 == IF file.exists THEN file.m ELSE EmptyManifest
        merged == merge_results(m0.date_queries, date_results)
        found == all_dates(m0, dirset)
        dates_to_remove == dates_to_remove_of(found, max_days, now)
        dates == sort_desc(found \ dates_to_remove)
    IN  [file |-> [exists |-> TRUE,
                   m |-> [dates |-> dates,
                          latest |-> latest_of(dates),
                          query_hashes |-> query_hashes,
                          date_queries |->
                              [d \in DOMAIN merged \ dates_to_remove |-> merged[d]]]],
         dirs |-> dirset \ dates_to_remove]

\* main: "Update manifest" after the fetch loop, then the normal return.
UpdateManifest ==
    /\ fr.pc = "update"
    /\ LET r == update_manifest(dmfile, dirs, fr.all_results, fr.query_hashes,
                                fr.max_days, today)
       IN  /\ dmfile' = r.file
           /\ dirs' = r.dirs
    /\ fr' = [fr EXCEPT !.pc = "returned", !.exit = 0]
    /\ UNCHANGED <<today, qsrc, cfg>>
    /\ FetchFrame

\* The coordinating process is killed during a run: what it held in memory
\* is gone, what it had written stays.
CrashFetch ==
    /\ fr.pc \in {"fetching", "update"}
    /\ fr' = [FetchIdle EXCEPT !.pc = "crashed", !.run = fr.run, !.edits = fr.edits,
                              !.succeeded = fr.succeeded, !.file0 = fr.file0]
    /\ UNCHANGED <<today, qsrc, cfg, dirs, dmfile>>
    /\ FetchFrame

\* Between two runs the source of query q is edited (or broken).
EditQuery(q, v) ==
    /\ fr.pc \in FetchEnded
    /\ fr.edits < MaxEdits
    /\ qsrc[q] # v
    /\ qsrc' = [qsrc EXCEPT ![q] = v]
    /\ fr' = [FetchIdle EXCEPT !.run = fr.run, !.edits = fr.edits + 1]
    /\ UNCHANGED <<today, cfg, dirs, dmfile>>
    /\ FetchFrame

(***************************************************************************)
(* The data directory under update_manifest calls and external deletions   *)
(* (scripts/fetch_data.py, update_manifest)                                *)
(***************************************************************************)

NumStoreDays == 3
MaxStoreKeep == 2
MaxStoreWrites == 2
MaxStoreDeletes == 1

StoreDays == 1..NumStoreDays
\* The day of the calls: the retention cutoffs are StoreToday - max_days.
StoreToday == NumStoreDays + 1

\* What a fetch run did for one date: "none", the date was not selected;
\* "failed", every fetch_query call raised; "first", only the first query's
\* call returned; "all", every call returned.
Outcomes == [StoreDays -> {"none", "failed", "first", "all"}]

fetched_queries(o) == IF o = "all" THEN Queries ELSE IF o = "first" THEN {1} ELSE {}

\* all_results of a run with these outcomes, its records stamped with stamp.
results_of(outcome, stamp) ==
    [d \in {x \in StoreDays : outcome[x] # "none"} |->
       [q \in fetched_queries(outcome[d]) |->
          [query_hash |-> compute_query_hash(1), fetched_at |-> stamp]]]

StoreIdle ==
    [pc |-> "idle", writes |-> 0, deletes |-> 0, deleted |-> {},
     before |-> NoManifestFile, scanned |-> {}, date_results |-> EmptyFn,
     max_days |-> None]

\* A fetch run as the data directory sees it: fetch_query makes the directory
\* of every date it is called for, then main calls update_manifest once.
StoreWrite(outcome, max_days) ==
    /\ ms.pc \in {"idle", "written", "deleted"}
    /\ ms.writes < MaxStoreWrites
    /\ LET date_results == results_of(outcome, ms.writes + 1)
           scanned == dirs \cup DOMAIN date_results
           r == update_manifest(dmfile, scanned, date_results,
                                [q \in Queries |-> compute_query_hash(1)],
                                max_days, StoreToday)
       IN  /\ dmfile' = r.file
           /\ dirs' = r.dirs
           /\ ms' = [ms EXCEPT !.pc = "written", !.writes = @ + 1,
                               !.deleted = IF ms.pc = "deleted" THEN @ ELSE {},
                               !.before = dmfile, !.scanned = scanned,
                               !.date_results = date_results,
                               !.max_days = max_days]
    /\ StoreFrame

\* A date directory is removed from outside (rm -r, a cache eviction).
DeleteDir(d) ==
    /\ ms.pc \in {"written", "deleted"}
    /\ ms.deletes < MaxStoreDeletes
    /\ d \in dirs
    /\ dirs' = dirs \ {d}
    /\ ms' = [StoreIdle EXCEPT !.pc = "deleted", !.writes = ms.writes,
                               !.deletes = ms.deletes + 1,
                               !.deleted = IF ms.pc = "deleted"
                                            THEN ms.deleted \cup {d} ELSE {d}]
    /\ UNCHANGED dmfile
    /\ StoreFrame

(***************************************************************************)
(* A persisted data manifest with absent fields (update_manifest,          *)
(* check_staleness on a file another schema wrote)                         *)
(***************************************************************************)

NumSchemaDays == 2
MaxSchemaKeep == 1

SchemaDays == 1..NumSchemaDays
SchemaToday == NumSchemaDays + 1

ManifestFields == {"schema_version", "dates", "latest", "query_hashes", "date_queries"}

\* The records of the dates ds, stamped with stamp.
schema_results(ds, stamp) ==
    [d \in ds |->
       [q \in Queries |-> [query_hash |-> compute_query_hash(1), fetched_at |-> stamp]]]

\* A JSON object with the keys `keys`; m holds their values (and the empty
\* value under every absent key).
Persisted(keys, m) ==
    [keys |-> keys,
     m |-> [dates |-> IF "dates" \in keys THEN m.dates ELSE <<>>,
            latest |-> IF "latest" \in keys THEN m.latest ELSE None,
            query_hashes |-> IF "query_hashes" \in keys THEN m.query_hashes ELSE EmptyFn,
            date_queries |-> IF "date_queries" \in keys THEN m.date_queries ELSE EmptyFn]]

\* "Migrate v1 manifests": without schema_version, date_queries is reset.
migrate(p) ==
    IF "schema_version" \notin p.keys
    THEN [keys |-> p.keys \cup {"schema_version", "date_queries"},
          m |-> [p.m EXCEPT !.date_queries = EmptyFn]]
    ELSE p

\* update_manifest on the persisted object p: manifest["date_queries"] is
\* subscripted for every date of date_results and for every pruned date, a
\* KeyError when the key is absent; the other keys are assigned, never read.
update_persisted(p, dirset, date_results, query_hashes, max_days, now) ==
    LET g == migrate(p)
        subscripted == DOMAIN date_results \cup dates_to_remove_of(dirset, max_days, now)
    IN  IF "date_queries" \notin g.keys /\ subscripted # {}
        THEN [raised |-> TRUE, p |-> p]
        ELSE [raised |-> FALSE,
              p |-> [keys |-> g.keys \cup {"query_hashes", "dates", "latest"},
                     m |-> update_manifest([exists |-> TRUE, m |-> g.m], dirset,
                                           date_results, query_hashes, max_days,
                                           now).file.m]]

\* check_staleness on p: manifest.get("date_queries", {}).
check_persisted(current_hashes, p, dates) == check_staleness(current_hashes, p.m, dates)

SchemaIdle ==
    [pc |-> "idle", p |-> Persisted({}, EmptyManifest), dirset |-> {},
     date_results |-> EmptyFn, max_days |-> None,
     after |-> Persisted({}, EmptyManifest), reports |-> <<>>]

SchemaHashes == [q \in Queries |-> compute_query_hash(1)]

\* update_manifest is called after a run that fetched the dates ds.
SchemaUpdate(ds, max_days) ==
    /\ sc.pc = "idle"
    /\ LET date_results == schema_results(ds, 1)
           r == update_persisted(sc.p, sc.dirset \cup ds, date_results, SchemaHashes,
                                 max_days, SchemaToday)
       IN  sc' = [sc EXCEPT !.pc = IF r.raised THEN "raised" ELSE "updated",
                            !.dirset = @ \cup ds,
                            !.date_results = date_results,
                            !.max_days = max_days,
                            !.after = r.p]
    /\ SchemaFrame

\* check_staleness is called on the loaded manifest for every day.
SchemaCheck ==
    /\ sc.pc = "idle"
    /\ sc' = [sc EXCEPT !.pc = "checked",
                        !.reports = check_persisted(SchemaHashes, sc.p,
                                                    sort_desc(SchemaDays))]
    /\ SchemaFrame

(***************************************************************************)
(* Two fetch runs on the same data directory (fetch_data.py main,          *)
(* update_manifest as its load step and its write step)                    *)
(***************************************************************************)

NumOverlapDays == 2
NumOverlapRuns == 2

OverlapDays == 1..NumOverlapDays
OverlapRuns == 1..NumOverlapRuns
OverlapToday == NumOverlapDays + 1

\* all_results of run r: the queries qs fetched for the dates ds.
overlap_results(r, ds, qs) ==
    [d \in ds |-> [q \in qs |-> [query_hash |-> compute_query_hash(1), fetched_at |-> r]]]

OverlapRunIdle == [pc |-> "idle", date_results |-> EmptyFn, loaded |-> NoManifestFile]

OverlapIdle ==
    [pc |-> "on", file |-> NoManifestFile, dirset |-> {},
     run |-> [r \in OverlapRuns |-> OverlapRunIdle], overlapped |-> FALSE]

\* Run r fetches: fetch_query makes the date directories and writes the
\* parquet files; main keeps the results for update_manifest.
OverlapFetch(r, ds, qs) ==
    /\ ov.pc = "on"
    /\ ov.run[r].pc = "idle"
    /\ ov' = [ov EXCEPT !.run[r].pc = "fetched",
                        !.run[r].date_results = overlap_results(r, ds, qs),
                        !.dirset = @ \cup ds]
    /\ OverlapFrame

\* update_manifest of run r reads the manifest file (json.load).
OverlapLoad(r) ==
    /\ ov.pc = "on"
    /\ ov.run[r].pc = "fetched"
    /\ ov' = [ov EXCEPT !.run[r].pc = "loaded",
                        !.run[r].loaded = ov.file,
                        !.overlapped =
                            @ \/ \E o \in OverlapRuns \ {r} : ov.run[o].pc = "loaded"]
    /\ OverlapFrame

\* update_manifest of run r merges its results into what it loaded, scans
\* the directory and writes the file (json.dump).
OverlapWrite(r) ==
    /\ ov.pc = "on"
    /\ ov.run[r].pc = "loaded"
    /\ ov' = [ov EXCEPT !.run[r].pc = "written",
                        !.file = update_manifest(ov.run[r].loaded, ov.dirset,
                                                 ov.run[r].date_results,
                                                 [q \in Queries |-> compute_query_hash(1)],
                                                 None, OverlapToday).file]
    /\ OverlapFrame

(***************************************************************************)
(* The manifest file as bytes: open(path, "w") + json.dump against         *)
(* open(path) + json.load (update_manifest, save_manifest, load_*manifest) *)
(***************************************************************************)

NumDocVersions == 2
DocChunks == 2
MaxFileWrites == 2
MaxLoads == 2

DocVersions == 1..NumDocVersions

\* The two manifest files; each has its writer and its loader.
ManifestPaths == {"notebooks/data/manifest.json", "site/public/rendered/manifest.json"}

\* What a load gives: the fresh empty structure, the document, or the
\* JSONDecodeError of json.load.
EmptyStructure == <<"empty">>
Document(v) == <<"doc", v>>
DecodeError == <<"raised">>

\* json.load(f): the document when the file holds all of it.
json_load(content) ==
    IF Len(content) = DocChunks THEN Document(content[1]) ELSE DecodeError

\* load_data_manifest / load_manifest: "if path.exists(): return json.load(f)",
\* else the empty structure.
load_file(exists, content) ==
    IF exists THEN json_load(content) ELSE EmptyStructure

FileIdle ==
    [path |-> "notebooks/data/manifest.json", exists |-> FALSE, content |-> <<>>,
     wpc |-> "idle", wdoc |-> None, wold |-> EmptyStructure, writes |-> 0,
     loads |-> 0, result |-> EmptyStructure, prev |-> EmptyStructure,
     during |-> FALSE, missing |-> FALSE, quiet |-> FALSE, repeat |-> FALSE]

\* open(manifest_path, "w"): the file is created or truncated.
OpenWrite(v) ==
    /\ mf.wpc \in {"idle", "killed"}
    /\ mf.writes < MaxFileWrites
    /\ mf' = [mf EXCEPT !.exists = TRUE, !.content = <<>>, !.wpc = "writing",
                        !.wdoc = v, !.wold = load_file(mf.exists, mf.content),
                        !.writes = @ + 1, !.quiet = FALSE]
    /\ FileFrame

\* json.dump writes the next part of the document; after the last part the
\* with-block closes the file.
WriteChunk ==
    /\ mf.wpc = "writing"
    /\ LET c == Append(mf.content, mf.wdoc)
       IN  mf' = [mf EXCEPT !.content = c, !.quiet = FALSE,
                            !.wpc = IF Len(c) = DocChunks THEN "idle" ELSE "writing"]
    /\ FileFrame

\* The writing process is killed before the document is complete.
KillWriter ==
    /\ mf.wpc = "writing"
    /\ mf' = [mf EXCEPT !.wpc = "killed"]
    /\ FileFrame

\* Another process (or a later run) loads the manifest.
LoadFile ==
    /\ mf.loads < MaxLoads
    /\ mf' = [mf EXCEPT !.loads = @ + 1,
                        !.result = load_file(mf.exists, mf.content),
                        !.prev = mf.result,
                        !.during = (mf.wpc = "writing"),
                        !.missing = ~mf.exists,
                        !.repeat = mf.quiet,
                        !.quiet = TRUE]
    /\ FileFrame

(***************************************************************************)
(* Render run (scripts/render_notebooks.py)                                *)
(***************************************************************************)

NumNotebooks == 2
NumNbVersions == 2
MaxRenderRuns == 2
\* max_workers = min(len(notebooks), 4)
PoolCap == 4

\* config["notebooks"]: the notebook ids, in configuration order.
Notebooks == 1..NumNotebooks
\* An id --notebook may name that the configuration does not hold.
UnknownNotebook == NumNotebooks + 1

\* hash_file(notebook_source) of a notebook whose source is version v.
hash_notebook(v) == <<"sha256", v>>

\* A pool as large as the list of notebooks.
min_uncapped(a, b) == a

min(a, b) == IF a <= b THEN a ELSE b

\* load_manifest's empty structure.
EmptyRendered == [latest_date |-> None, dates |-> EmptyFn]
NoRenderedFile == [exists |-> FALSE, m |-> EmptyRendered]
load_manifest(file) == IF file.exists THEN file.m ELSE EmptyRendered

\* get_available_dates: the data manifest's "dates", or the date directories.
get_available_dates(file, dirset) ==
    IF file.exists THEN file.m.dates ELSE sort_desc(dirset)

RenderArgs ==
    [date : Days \cup {None}, notebook : Notebooks \cup {None, UnknownNotebook},
     force : BOOLEAN, latest_only : BOOLEAN, allow_stale : BOOLEAN]

RenderIdle ==
    [pc |-> "idle", run |-> 0, edits |-> 0, force |-> FALSE,
     allow_stale |-> FALSE, notebook |-> None, stale_reports |-> <<>>, notebooks |-> {}, dates_to_render |-> <<>>,
     next |-> 1, date |-> None, latest_date |-> None, manifest |-> EmptyRendered,
     task |-> EmptyFn, selected |-> {}, started |-> {}, succeeded |-> {},
     success_count |-> 0, skip_count |-> 0, failed |-> {}, exit |-> None,
     file0 |-> NoRenderedFile]

RenderEnded == {"idle", "returned", "blocked", "raised", "crashed"}

\* should_render(notebook_id, notebook_source, date, manifest, force)
should_render(notebook_id, current_hash, date, m, force) ==
    IF force THEN TRUE
    ELSE IF ~(date \in DOMAIN m.dates /\ notebook_id \in DOMAIN m.dates[date])
    THEN TRUE
    ELSE current_hash # m.dates[date][notebook_id].notebook_hash

\* "Determine dates to process": the dates, or the exit with status 1.
dates_to_render_of(args, available_dates, configured_dates) ==
    IF args.date # None
    THEN IF args.date \in SeqRange(available_dates)
         THEN [ok |-> TRUE, dates |-> <<args.date>>]
         ELSE [ok |-> FALSE, dates |-> <<>>]
    ELSE IF args.latest_only
    THEN [ok |-> TRUE, dates |-> <<available_dates[1]>>]
    ELSE LET ds == SelectSeq(available_dates, LAMBDA d : d \in configured_dates)
         IN  [ok |-> ds # <<>>, dates |-> ds]

gate_blocks_never(stale_reports, allow_stale) == FALSE

\* "if stale_reports and not args.allow_stale: ... sys.exit(1)"
gate_blocks(stale_reports, allow_stale) == stale_reports # <<>> /\ ~allow_stale

\* main up to the staleness check: the manifests, the available dates and
\* the dates to render.
StartRender(args) ==
    /\ rr.pc \in RenderEnded
    /\ rr.run < MaxRenderRuns
    /\ LET manifest == load_manifest(rmfile)
           data_manifest == load_data_manifest(dmfile)
           available_dates == get_available_dates(dmfile, dirs)
           resolved == resolve_dates(cfg, None, today)
           sel == dates_to_render_of(args, available_dates, SeqRange(resolved.dates))
           stale_reports == check_staleness(compute_all_query_hashes(qsrc),
                                            data_manifest, sel.dates)
           run == [RenderIdle EXCEPT !.run = rr.run + 1, !.edits = rr.edits,
                                     !.manifest = manifest, !.file0 = rmfile]
       IN  rr' = IF available_dates = <<>>
                 THEN [run EXCEPT !.pc = "returned", !.exit = 0]
                 ELSE IF ~resolved.ok
                 THEN [run EXCEPT !.pc = "raised", !.exit = 1]
                 ELSE IF ~sel.ok
                 THEN [run EXCEPT !.pc = "returned", !.exit = 1]
                 ELSE [run EXCEPT !.pc = "gate",
                                  !.force = args.force,
                                  !.allow_stale = args.allow_stale,
                                  !.notebook = args.notebook,
                                  !.dates_to_render = sel.dates,
                                  !.stale_reports = stale_reports,
                                  !.latest_date = available_dates[1]]
    /\ UNCHANGED <<nbsrc, rmfile, html>>
    /\ RenderFrame

\* main from the staleness gate to the loop: the exit on stale data, the
\* --notebook filter. args.allow_stale and args.notebook are not read again.
StaleGate ==
    /\ rr.pc = "gate"
    /\ LET notebooks == IF rr.notebook # None
                        THEN {nb \in DOMAIN nbsrc : nb = rr.notebook}
                        ELSE DOMAIN nbsrc
           past == [rr EXCEPT !.allow_stale = FALSE, !.notebook = None]
       IN  rr' = IF gate_blocks(rr.stale_reports, rr.allow_stale)
                 THEN [past EXCEPT !.pc = "blocked", !.exit = 1]
                 ELSE IF notebooks = {}
                 THEN [past EXCEPT !.pc = "returned", !.exit = 1]
                 ELSE [past EXCEPT !.pc = "dates", !.notebooks = notebooks]
    /\ UNCHANGED <<nbsrc, rmfile, html>>
    /\ RenderFrame

\* One pass of "for date in dates_to_render" up to the pool: the date's
\* manifest entry, the skips, and the submission of every notebook to render.
BeginDate ==
    /\ rr.pc = "dates"
    /\ rr.next <= Len(rr.dates_to_render)
    /\ LET date == rr.dates_to_render[rr.next]
           m == IF date \in DOMAIN rr.manifest.dates THEN rr.manifest
                ELSE [rr.manifest EXCEPT
                        !.dates = [d \in DOMAIN @ \cup {date} |->
                                     IF d = date THEN EmptyFn ELSE @[d]]]
           to_render == {nb \in rr.notebooks :
                           should_render(nb, hash_notebook(nbsrc[nb]), date, m, rr.force)}
           skipped == rr.notebooks \ to_render
       IN  rr' = [rr EXCEPT
                    !.manifest = m,
                    !.date = date,
                    !.next = @ + 1,
                    !.skip_count = @ + Cardinality(skipped),
                    !.selected = @ \cup {<<date, nb>> : nb \in to_render},
                    !.task = [nb \in to_render |-> "pending"],
                    !.pc = IF to_render = {} THEN "dates" ELSE "pool"]
    /\ UNCHANGED <<nbsrc, rmfile, html>>
    /\ RenderFrame

RenderRunning == {nb \in DOMAIN rr.task : rr.task[nb] = "running"}

\* A pool process takes a submitted render_notebook_task call.
RenderStart(nb) ==
    /\ rr.pc = "pool"
    /\ nb \in DOMAIN rr.task
    /\ rr.task[nb] = "pending"
    /\ Cardinality(RenderRunning) < min(Cardinality(rr.notebooks), PoolCap)
    /\ rr' = [rr EXCEPT !.task[nb] = "running", !.started = @ \cup {<<rr.date, nb>>}]
    /\ UNCHANGED <<nbsrc, rmfile, html>>
    /\ RenderFrame

\* Where the HTML of a date goes: "latest" or "archive/<date>".
html_path(date, latest_date, nb) ==
    IF date = latest_date THEN <<"latest", nb>> ELSE <<"archive", date, nb>>

\* What a render of a date reads: the date's data, as its manifest records say
\* when each query was produced.
data_of(file, date) ==
    LET m == load_data_manifest(file)
    IN  IF date \in DOMAIN m.date_queries THEN m.date_queries[date] ELSE EmptyFn

\* A worker that also records its render in the manifest and saves it.
RenderFinishSaving(nb, ok) ==
    /\ rr.pc = "pool"
    /\ nb \in DOMAIN rr.task
    /\ rr.task[nb] = "running"
    /\ LET record == [rendered_at |-> rr.run,
                      notebook_hash |-> hash_notebook(nbsrc[nb]),
                      html_path |-> html_path(rr.date, rr.latest_date, nb)]
           m == IF ok
                THEN [rr.manifest EXCEPT
                        !.dates[rr.date] = [n \in DOMAIN @ \cup {nb} |->
                                              IF n = nb THEN record ELSE @[n]]]
                ELSE rr.manifest
       IN  /\ rr' = [rr EXCEPT !.task[nb] = IF ok THEN "ok" ELSE "error",
                               !.manifest = m]
           /\ rmfile' = IF ok THEN [exists |-> TRUE, m |-> m] ELSE rmfile
    /\ html' = IF ok
               THEN LET path == html_path(rr.date, rr.latest_date, nb)
                    IN  [p \in DOMAIN html \cup {path} |->
                           IF p = path
                           THEN [date |-> rr.date, data |-> data_of(dmfile, rr.date)]
                           ELSE html[p]]
               ELSE html
    /\ UNCHANGED nbsrc
    /\ RenderFrame

\* render_notebook returns (True, path) with the HTML written, or (False, error).
RenderFinish(nb, ok) ==
    /\ rr.pc = "pool"
    /\ nb \in DOMAIN rr.task
    /\ rr.task[nb] = "running"
    /\ rr' = [rr EXCEPT !.task[nb] = IF ok THEN "ok" ELSE "error"]
    /\ html' = IF ok
               THEN LET path == html_path(rr.date, rr.latest_date, nb)
                    IN  [p \in DOMAIN html \cup {path} |->
                           IF p = path
                           THEN [date |-> rr.date, data |-> data_of(dmfile, rr.date)]
                           ELSE html[p]]
               ELSE html
    /\ UNCHANGED <<nbsrc, rmfile>>
    /\ RenderFrame

record_render_always(dates, date, nb, success, record) ==
    [dates EXCEPT ![date] = [n \in DOMAIN @ \cup {nb} |->
                               IF n = nb THEN record ELSE @[n]]]

\* "if result['success']: ... manifest['dates'][date][notebook_id] = {...}"
record_render(dates, date, nb, success, record) ==
    IF success
    THEN [dates EXCEPT ![date] = [n \in DOMAIN @ \cup {nb} |->
                                    IF n = nb THEN record ELSE @[n]]]
    ELSE dates

\* A coordinator that prints a failed result without keeping it.
CollectRenderForgetful(nb) ==
    /\ rr.pc = "pool"
    /\ nb \in DOMAIN rr.task
    /\ rr.task[nb] \in {"ok", "error"}
    /\ LET success == rr.task[nb] = "ok"
           record == [rendered_at |-> rr.run,
                      notebook_hash |-> IF success THEN hash_notebook(nbsrc[nb])
                                        ELSE <<>>,
                      html_path |-> html_path(rr.date, rr.latest_date, nb)]
           t == [rr.task EXCEPT ![nb] = Seen(@)]
       IN  rr' = [rr EXCEPT
                    !.task = t,
                    !.manifest.dates = record_render(@, rr.date, nb, success, record),
                    !.success_count = IF success THEN @ + 1 ELSE @,
                    !.succeeded = IF success THEN @ \cup {<<rr.date, nb>>} ELSE @,
                    !.pc = IF \A n \in DOMAIN t : t[n] \in Handled
                           THEN "dates" ELSE "pool"]
    /\ UNCHANGED <<nbsrc, rmfile, html>>
    /\ RenderFrame

\* as_completed yields a finished task; the coordinator handles its result.
\* After the last one the pool is left and the loop goes to the next date.
CollectRender(nb) ==
    /\ rr.pc = "pool"
    /\ nb \in DOMAIN rr.task
    /\ rr.task[nb] \in {"ok", "error"}
    /\ LET success == rr.task[nb] = "ok"
           record == [rendered_at |-> rr.run,
                      notebook_hash |-> IF success THEN hash_notebook(nbsrc[nb])
                                        ELSE <<>>,
                      html_path |-> html_path(rr.date, rr.latest_date, nb)]
           t == [rr.task EXCEPT ![nb] = Seen(@)]
       IN  rr' = [rr EXCEPT
                    !.task = t,
                    !.manifest.dates = record_render(@, rr.date, nb, success, record),
                    !.success_count = IF success THEN @ + 1 ELSE @,
                    !.succeeded = IF success THEN @ \cup {<<rr.date, nb>>} ELSE @,
                    !.failed = IF success THEN @ ELSE @ \cup {<<rr.date, nb>>},
                    !.pc = IF \A n \in DOMAIN t : t[n] \in Handled
                           THEN "dates" ELSE "pool"]
    /\ UNCHANGED <<nbsrc, rmfile, html>>
    /\ RenderFrame

\* After the loop: latest_date, save_manifest, and the exit status.
SaveManifest ==
    /\ rr.pc = "dates"
    /\ rr.next > Len(rr.dates_to_render)
    /\ LET m == [rr.manifest EXCEPT !.latest_date = rr.latest_date]
       IN  /\ rmfile' = [exists |-> TRUE, m |-> m]
           /\ rr' = [rr EXCEPT !.manifest = m, !.pc = "returned",
                               !.exit = IF rr.failed # {} THEN 1 ELSE 0]
    /\ UNCHANGED <<nbsrc, html>>
    /\ RenderFrame

\* The coordinating process is killed during a run: what it held in memory
\* is gone, what it had written stays.
CrashRender ==
    /\ rr.pc \in {"dates", "pool"}
    /\ rr' = [RenderIdle EXCEPT !.pc = "crashed", !.run = rr.run, !.edits = rr.edits,
                               !.succeeded = rr.succeeded, !.file0 = rr.file0]
    /\ UNCHANGED <<nbsrc, rmfile, html>>
    /\ RenderFrame

\* Between two runs the source of notebook nb is edited.
EditNotebook(nb, v) ==
    /\ rr.pc \in RenderEnded
    /\ rr.edits < MaxEdits
    /\ nbsrc[nb] # v
    /\ nbsrc' = [nbsrc EXCEPT ![nb] = v]
    /\ rr' = [RenderIdle EXCEPT !.run = rr.run, !.edits = rr.edits + 1]
    /\ UNCHANGED <<rmfile, html>>
    /\ RenderFrame

(***************************************************************************)
(* Data copy for publishing (scripts/copy_data_to_dist.py)                 *)
(***************************************************************************)

MaxCopies == 2

\* load_rendered_dates: list(manifest.get("dates", {}).keys()), [] without
\* the file.
load_rendered_dates(file) == IF file.exists THEN DOMAIN file.m.dates ELSE {}

\* copy_data_for_date copies the parquet files of the date's source directory.
copy_data_for_date(dirset, date) == IF date \in dirset THEN {date} ELSE {}

CopyIdle == [pc |-> "idle", runs |-> 0, dates |-> {}, rendered_dates |-> {}]

\* main of copy_data_to_dist.py, run between render runs.
CopyDataToDist ==
    /\ dd.pc = "idle"
    /\ dd.runs < MaxCopies
    /\ rr.pc \in RenderEnded
    /\ LET rendered_dates == load_rendered_dates(rmfile)
       IN  dd' = [dd EXCEPT
                    !.runs = @ + 1,
                    !.rendered_dates = rendered_dates,
                    !.dates = @ \cup UNION {copy_data_for_date(dirs, d) :
                                              d \in rendered_dates}]
    /\ CopyFrame

(***************************************************************************)
(* Content-addressed publisher (scripts/upload_r2.py)                      *)
(***************************************************************************)

\* Bounds of the publisher model.
NumPaths == 2
NumContents == 2
MaxPublishRuns == 2
\* Largest max_workers a publish is called with (the code's default is 10).
MaxWorkers == 2

Paths == 1..NumPaths
Contents == 1..NumContents
NoFile == 0
Trees == [Paths -> Contents \cup {NoFile}]
Names == {"main", "pr-14"}

\* path.suffix of the file at path p: path 1 is "a" (no suffix), path 2 is
\* "b.bin", every third path is "*.html", the others have no suffix.
suffix(p) == IF p = 2 THEN ".bin" ELSE IF p % 3 = 0 THEN ".html" ELSE ""

get_extension(p) == IF suffix(p) = "" THEN ".bin" ELSE suffix(p)

\* sha256(bytes).hexdigest()[:16]: a digest determined by the bytes alone.
hash_file(c) == <<"sha256", c>>

\* path.stat().st_size, determined by the bytes.
st_size(c) == c

\* f"blobs/{content_hash}{extension}"
blob_key(tree, p) == <<"blobs", hash_file(tree[p]), get_extension(p)>>

files_to_process(tree) == {p \in Paths : tree[p] # NoFile}

\* manifest[relative_path] = {"hash", "blob", "size"}
manifest_entry(tree, p) ==
    [path |-> p, hash |-> hash_file(tree[p]), blob |-> blob_key(tree, p),
     size |-> st_size(tree[p])]

\* s3.head_object: the status the store can answer for key k.
HeadErrors == {"500"}
head_object(k) == {IF k \in blobs THEN "200" ELSE "404"} \cup HeadErrors

blob_exists_swallow(code) == IF code = "200" THEN "true" ELSE "false"

\* blob_exists: True on success, False on 404, re-raise otherwise.
blob_exists(code) ==
    IF code = "200" THEN "true" ELSE IF code = "404" THEN "false" ELSE "raise"

RECURSIVE sorted_keys(_)
sorted_keys(S) ==
    IF S = {} THEN <<>>
    ELSE LET m == CHOOSE x \in S : \A y \in S : x <= y
         IN  <<m>> \o sorted_keys(S \ {m})

\* The dict a list of insertion-ordered entries denotes (last assignment wins).
dict_get(entries, p) ==
    LET idx == {i \in DOMAIN entries : entries[i].path = p}
        last == CHOOSE i \in idx : \A j \in idx : j <= i
    IN  entries[last]

json_dumps_unsorted(entries) == entries

\* json.dumps(manifest, sort_keys=True): entries in path order.
json_dumps(entries) ==
    LET ks == sorted_keys({entries[i].path : i \in DOMAIN entries})
    IN  [i \in DOMAIN ks |-> dict_get(entries, ks[i])]

NoObject == [present |-> FALSE, body |-> <<>>]
Object(b) == [present |-> TRUE, body |-> b]

PubIdle ==
    [pc |-> "idle", name |-> "main", dry_run |-> FALSE, max_workers |-> 1,
     runs |-> 0,
     to_scan |-> {}, manifest |-> <<>>, blobs_to_upload |-> {},
     existing_blobs |-> {}, task |-> [p \in {} |-> "pending"],
     bytes_uploaded |-> 0, head_error |-> NoFile,
     before |-> NoObject, blobs0 |-> {}, repeat |-> FALSE]

PubEnded == {"idle", "done", "failed", "dry"}

\* The site is rebuilt between two publishes: dist_dir holds another tree.
RebuildSite(t) ==
    /\ pub.pc \in PubEnded
    /\ t # dist
    /\ dist' = t
    /\ published' = {}
    /\ pub' = [PubIdle EXCEPT !.runs = pub.runs]
    /\ UNCHANGED <<blobs, manifests>>
    /\ PubFrame

\* upload_site(dist_dir, bucket, manifest_name, ..., dry_run) is called.
StartPublish(n, dry, w) ==
    /\ pub.pc \in PubEnded
    /\ pub.runs < MaxPublishRuns
    /\ pub' = [PubIdle EXCEPT !.pc = "scan", !.name = n, !.dry_run = dry,
                              !.max_workers = w,
                              !.runs = pub.runs + 1,
                              !.to_scan = files_to_process(dist),
                              !.before = manifests[n], !.blobs0 = blobs,
                              !.repeat = (n \in published)]
    /\ UNCHANGED <<dist, blobs, manifests, published>>
    /\ PubFrame

\* One iteration of "for file_path in files_to_process" (rglob order is the
\* file system's: any order).
ScanFile(p) ==
    /\ pub.pc = "scan"
    /\ p \in pub.to_scan
    /\ \E code \in head_object(blob_key(dist, p)) :
         LET r == blob_exists(code)
             m == Append(pub.manifest, manifest_entry(dist, p))
             err == IF code \in HeadErrors THEN p ELSE pub.head_error
         IN  pub' =
               IF r = "raise"
               THEN [pub EXCEPT !.pc = "failed", !.manifest = m, !.head_error = err]
               ELSE IF r = "true"
               THEN [pub EXCEPT !.to_scan = @ \ {p}, !.manifest = m,
                                !.head_error = err,
                                !.existing_blobs = @ \cup {p}]
               ELSE [pub EXCEPT !.to_scan = @ \ {p}, !.manifest = m,
                                !.head_error = err,
                                !.blobs_to_upload = @ \cup {p}]
    /\ UNCHANGED <<dist, blobs, manifests, published>>
    /\ PubFrame

after_scan_no_upload(dry, to_upload) == IF dry THEN "dry" ELSE "manifest"

\* What follows the scan loop: the dry-run return, "if blobs_to_upload:" the
\* parallel upload, else the manifest upload at once.
after_scan(dry, to_upload) ==
    IF dry THEN "dry" ELSE IF to_upload # {} THEN "upload" ELSE "manifest"

\* The scan loop is over: dry-run return, or submit every upload to the pool.
ScanDone ==
    /\ pub.pc = "scan"
    /\ pub.to_scan = {}
    /\ LET next == after_scan(pub.dry_run, pub.blobs_to_upload)
       IN  pub' = IF next = "upload"
                  THEN [pub EXCEPT !.pc = "upload",
                                   !.task = [p \in pub.blobs_to_upload |-> "pending"]]
                  ELSE [pub EXCEPT !.pc = next]
    /\ UNCHANGED <<dist, blobs, manifests, published>>
    /\ PubFrame

Running == {p \in DOMAIN pub.task : pub.task[p] = "running"}

\* A pool thread takes a submitted upload_blob call.
TaskStart(p) ==
    /\ pub.pc \in {"upload", "abort"}
    /\ p \in DOMAIN pub.task
    /\ pub.task[p] = "pending"
    /\ Cardinality(Running) < pub.max_workers
    /\ pub' = [pub EXCEPT !.task[p] = "running"]
    /\ UNCHANGED <<dist, blobs, manifests, published>>
    /\ PubFrame

\* upload_blob returns (s3.upload_file stored the object) or raises.
TaskFinish(p, ok) ==
    /\ pub.pc \in {"upload", "abort"}
    /\ p \in DOMAIN pub.task
    /\ pub.task[p] = "running"
    /\ pub' = [pub EXCEPT !.task[p] = IF ok THEN "ok" ELSE "error"]
    /\ blobs' = IF ok THEN blobs \cup {blob_key(dist, p)} ELSE blobs
    /\ UNCHANGED <<dist, manifests, published>>
    /\ PubFrame

on_result_swallow(status) == "continue"

\* The body of "for future in as_completed(futures)": future.result() re-raises.
on_result(status) == IF status = "error" THEN "raise" ELSE "continue"

\* as_completed yields a finished future; the coordinator handles it.
Collect(p) ==
    /\ pub.pc = "upload"
    /\ p \in DOMAIN pub.task
    /\ pub.task[p] \in {"ok", "error"}
    /\ pub' =
         IF on_result(pub.task[p]) = "raise"
         THEN [pub EXCEPT !.pc = "abort"]
         ELSE LET t == [pub.task EXCEPT ![p] = Seen(@)]
                  add == IF pub.task[p] = "ok" THEN st_size(dist[p]) ELSE 0
              IN  [pub EXCEPT !.task = t,
                              !.bytes_uploaded = @ + add,
                              !.pc = IF \A q \in DOMAIN t : t[q] \in Handled
                                     THEN "manifest" ELSE "upload"]
    /\ UNCHANGED <<dist, blobs, manifests, published>>
    /\ PubFrame

\* The raise leaves the with-block: executor.shutdown(wait=True) lets every
\* submitted upload run to its end, then the error reaches the caller.
AbortJoin ==
    /\ pub.pc = "abort"
    /\ \A p \in DOMAIN pub.task : pub.task[p] \in {"ok", "error"} \cup Handled
    /\ pub' = [pub EXCEPT !.pc = "failed"]
    /\ UNCHANGED <<dist, blobs, manifests, published>>
    /\ PubFrame

\* s3.put_object(Key=f"manifests/{manifest_name}.json", ...) succeeds or raises.
PutManifest(ok) ==
    /\ pub.pc = "manifest"
    /\ pub' = [pub EXCEPT !.pc = IF ok THEN "done" ELSE "failed"]
    /\ manifests' = IF ok
                    THEN [manifests EXCEPT ![pub.name] = Object(json_dumps(pub.manifest))]
                    ELSE manifests
    /\ published' = IF ok THEN published \cup {pub.name} ELSE published
    /\ UNCHANGED <<dist, blobs>>
    /\ PubFrame

(***************************************************************************)
(* Specifications: one per subsystem, the others at rest                    *)
(***************************************************************************)

\* A subsystem at rest is off: none of its actions is enabled.
StaleAtRest == stale = [StaleIdle EXCEPT !.pc = "off"]

FetchOff == fr = [FetchIdle EXCEPT !.pc = "off"]

FetchAtRest ==
    /\ today = FirstToday
    /\ cfg = DateConfig("rolling", 1, None, None, <<>>)
    /\ qsrc = [q \in Queries |-> 1]
    /\ dirs = {}
    /\ dmfile = NoManifestFile
    /\ FetchOff

StoreAtRest == ms = [StoreIdle EXCEPT !.pc = "off"]

ResolveAtRest == rd = [ResolveIdle EXCEPT !.pc = "off"]

HashAtRest == qf = [HashIdle EXCEPT !.pc = "off"]

CopyAtRest == dd = [CopyIdle EXCEPT !.pc = "off"]

OverlapAtRest == ov = [OverlapIdle EXCEPT !.pc = "off"]

SchemaAtRest == sc = [SchemaIdle EXCEPT !.pc = "off"]

FileAtRest == mf = [FileIdle EXCEPT !.wpc = "off", !.loads = MaxLoads]

RenderAtRest ==
    /\ nbsrc = [nb \in Notebooks |-> 1]
    /\ rmfile = NoRenderedFile
    /\ html = EmptyFn
    /\ rr = [RenderIdle EXCEPT !.pc = "off"]

\* The publisher before any publish, on an empty tree.
PublishAtRest ==
    /\ dist = [p \in Paths |-> NoFile]
    /\ blobs = {}
    /\ manifests = [n \in Names |-> NoObject]
    /\ pub = [PubIdle EXCEPT !.pc = "off"]
    /\ published = {}

InitPublish ==
    /\ dist \in Trees
    /\ blobs = {}
    /\ manifests = [n \in Names |-> NoObject]
    /\ pub = PubIdle
    /\ HashAtRest
    /\ published = {}
    /\ StaleAtRest
    /\ FetchAtRest
    /\ StoreAtRest
    /\ ResolveAtRest
    /\ FileAtRest
    /\ SchemaAtRest
    /\ OverlapAtRest
    /\ CopyAtRest
    /\ RenderAtRest

NextPublish ==
    \/ \E t \in Trees : RebuildSite(t)
    \/ \E n \in Names, dry \in BOOLEAN, w \in 1..MaxWorkers : StartPublish(n, dry, w)
    \/ \E p \in Paths : ScanFile(p)
    \/ ScanDone
    \/ \E p \in Paths : TaskStart(p)
    \/ \E p \in Paths, ok \in BOOLEAN : TaskFinish(p, ok)
    \/ \E p \in Paths : Collect(p)
    \/ AbortJoin
    \/ \E ok \in BOOLEAN : PutManifest(ok)

SpecPublish == InitPublish /\ [][NextPublish]_vars

InitStaleness ==
    /\ InitStale
    /\ FetchAtRest
    /\ StoreAtRest
    /\ ResolveAtRest
    /\ FileAtRest
    /\ SchemaAtRest
    /\ OverlapAtRest
    /\ CopyAtRest
    /\ RenderAtRest
    /\ PublishAtRest
    /\ HashAtRest

NextStale == CheckStaleness

SpecStale == InitStaleness /\ [][NextStale]_vars

InitFetch ==
    /\ today = FirstToday
    /\ cfg \in PipelineDates
    /\ qsrc = [q \in Queries |-> 1]
    /\ dirs = {}
    /\ dmfile = NoManifestFile
    /\ fr = FetchIdle
    /\ StaleAtRest
    /\ StoreAtRest
    /\ ResolveAtRest
    /\ FileAtRest
    /\ SchemaAtRest
    /\ OverlapAtRest
    /\ CopyAtRest
    /\ RenderAtRest
    /\ PublishAtRest
    /\ HashAtRest

NextFetch ==
    \/ \E args \in FetchArgs : StartFetch(args)
    \/ \E ok \in BOOLEAN : FetchItem(ok)
    \/ UpdateManifest
    \/ CrashFetch
    \/ \E q \in Queries, v \in Logic \cup {Broken} : EditQuery(q, v)

SpecFetch == InitFetch /\ [][NextFetch]_vars

\* What earlier fetch runs left of one date: every query fetched with the
\* current logic, the first query never fetched, or the first query fetched
\* with logic that has changed since.
DataStates == {"fresh", "missing", "changed"}

fetched_results(c) ==
    [d \in DOMAIN c |->
       [q \in IF c[d] = "missing" THEN Queries \ {1} ELSE Queries |->
          [query_hash |-> IF c[d] = "changed" /\ q = 1
                          THEN compute_query_hash(NumLogic)
                          ELSE compute_query_hash(1),
           fetched_at |-> 0]]]

\* The data directory and manifest as update_manifest writes them.
FetchedData(c) ==
    update_manifest(NoManifestFile, DOMAIN c, fetched_results(c),
                    [q \in Queries |-> compute_query_hash(1)], None, FirstToday)

\* The days fetched before the render: none, the newest, or all of them.
FetchedDays == {{}, {MaxDay}, Days}

InitRender ==
    /\ today = FirstToday
    /\ cfg = DateConfig("list", None, None, None, <<1, MaxDay>>)
    /\ qsrc = [q \in Queries |-> 1]
    /\ \E ds \in FetchedDays : \E c \in [ds -> DataStates] :
          /\ \A d \in ds : c[d] # "fresh" => d = MaxDay
          /\ dirs = FetchedData(c).dirs
          /\ dmfile \in {FetchedData(c).file, NoManifestFile}
    /\ FetchOff
    /\ nbsrc = [nb \in Notebooks |-> 1]
    /\ rmfile = NoRenderedFile
    /\ html = EmptyFn
    /\ rr = RenderIdle
    /\ StaleAtRest
    /\ StoreAtRest
    /\ ResolveAtRest
    /\ FileAtRest
    /\ SchemaAtRest
    /\ OverlapAtRest
    /\ CopyAtRest
    /\ PublishAtRest
    /\ HashAtRest

NextRender ==
    \/ \E args \in RenderArgs : StartRender(args)
    \/ StaleGate
    \/ BeginDate
    \/ \E nb \in Notebooks : RenderStart(nb)
    \/ \E nb \in Notebooks, ok \in BOOLEAN : RenderFinish(nb, ok)
    \/ \E nb \in Notebooks : CollectRender(nb)
    \/ SaveManifest
    \/ CrashRender
    \/ \E nb \in Notebooks, v \in 1..NumNbVersions : EditNotebook(nb, v)

SpecRender == InitRender /\ [][NextRender]_vars

InitStore ==
    /\ today = StoreToday
    /\ cfg = DateConfig("rolling", 1, None, None, <<>>)
    /\ qsrc = [q \in Queries |-> 1]
    /\ dirs = {}
    /\ dmfile = NoManifestFile
    /\ FetchOff
    /\ ms = StoreIdle
    /\ StaleAtRest
    /\ ResolveAtRest
    /\ FileAtRest
    /\ SchemaAtRest
    /\ OverlapAtRest
    /\ CopyAtRest
    /\ RenderAtRest
    /\ PublishAtRest
    /\ HashAtRest

NextStore ==
    \/ \E outcome \in Outcomes, max_days \in 0..MaxStoreKeep : StoreWrite(outcome, max_days)
    \/ \E d \in StoreDays : DeleteDir(d)

\* The data directory and its manifest under fetch runs and deletions.
SpecStore == InitStore /\ [][NextStore]_vars

InitResolve ==
    /\ InitResolveCall
    /\ StaleAtRest
    /\ FetchAtRest
    /\ StoreAtRest
    /\ FileAtRest
    /\ SchemaAtRest
    /\ OverlapAtRest
    /\ CopyAtRest
    /\ RenderAtRest
    /\ PublishAtRest
    /\ HashAtRest

NextResolve == ResolveDates

SpecResolve == InitResolve /\ [][NextResolve]_vars

InitFile ==
    /\ \E path \in ManifestPaths : mf = [FileIdle EXCEPT !.path = path]
    /\ SchemaAtRest
    /\ OverlapAtRest
    /\ CopyAtRest
    /\ StaleAtRest
    /\ FetchAtRest
    /\ StoreAtRest
    /\ ResolveAtRest
    /\ RenderAtRest
    /\ PublishAtRest
    /\ HashAtRest

NextFile ==
    \/ \E v \in DocVersions : OpenWrite(v)
    \/ WriteChunk
    \/ KillWriter
    \/ LoadFile

\* One writer and one reader of a manifest file.
SpecFile == InitFile /\ [][NextFile]_vars

\* The persisted manifests: what an earlier program wrote for some dates,
\* kept under any subset of the keys.
InitSchema ==
    /\ \E keys \in SUBSET ManifestFields, ds \in SUBSET SchemaDays :
          sc = [SchemaIdle EXCEPT
                  !.p = Persisted(keys,
                                  update_manifest(NoManifestFile, ds, schema_results(ds, 0),
                                                  SchemaHashes, None, SchemaToday).file.m),
                  !.dirset = ds]
    /\ OverlapAtRest
    /\ CopyAtRest
    /\ StaleAtRest
    /\ FetchAtRest
    /\ StoreAtRest
    /\ ResolveAtRest
    /\ FileAtRest
    /\ RenderAtRest
    /\ PublishAtRest
    /\ HashAtRest

NextSchema ==
    \/ \E ds \in SUBSET SchemaDays, max_days \in 0..MaxSchemaKeep : SchemaUpdate(ds, max_days)
    \/ SchemaCheck

\* One call of update_manifest or check_staleness on a persisted manifest.
SpecSchema == InitSchema /\ [][NextSchema]_vars

InitOverlap ==
    /\ ov = OverlapIdle
    /\ CopyAtRest
    /\ StaleAtRest
    /\ FetchAtRest
    /\ StoreAtRest
    /\ ResolveAtRest
    /\ FileAtRest
    /\ SchemaAtRest
    /\ RenderAtRest
    /\ PublishAtRest
    /\ HashAtRest

NextOverlap ==
    \/ \E r \in OverlapRuns, ds \in SUBSET OverlapDays, qs \in SUBSET Queries :
          OverlapFetch(r, ds, qs)
    \/ \E r \in OverlapRuns : OverlapLoad(r)
    \/ \E r \in OverlapRuns : OverlapWrite(r)

\* Two fetch runs, their steps interleaved in every order.
SpecOverlap == InitOverlap /\ [][NextOverlap]_vars

NumPoolNotebooks == 5

PoolNotebooks == 1..NumPoolNotebooks

\* The runs of the pool specification: every notebook or only the first, the
\* latest date.
PoolArgs ==
    {args \in RenderArgs :
        /\ args.date = None
        /\ args.notebook \in {None, 1}
        /\ args.force
        /\ args.latest_only
        /\ ~args.allow_stale}

\* A configuration with more notebooks than the pool has processes, on fresh
\* data of one date.
InitPoolRender ==
    /\ today = FirstToday
    /\ cfg = DateConfig("list", None, None, None, <<1, MaxDay>>)
    /\ qsrc = [q \in Queries |-> 1]
    /\ LET data == FetchedData([d \in {MaxDay} |-> "fresh"])
       IN  dirs = data.dirs /\ dmfile = data.file
    /\ FetchOff
    /\ nbsrc = [nb \in PoolNotebooks |-> 1]
    /\ rmfile = NoRenderedFile
    /\ html = EmptyFn
    /\ rr = [RenderIdle EXCEPT !.run = MaxRenderRuns - 1]
    /\ StaleAtRest
    /\ StoreAtRest
    /\ ResolveAtRest
    /\ FileAtRest
    /\ SchemaAtRest
    /\ OverlapAtRest
    /\ CopyAtRest
    /\ PublishAtRest
    /\ HashAtRest

InitPools == InitPoolRender \/ InitPublish

NextPools ==
    \/ \E args \in PoolArgs : StartRender(args)
    \/ StaleGate
    \/ BeginDate
    \/ \E nb \in PoolNotebooks : RenderStart(nb)
    \/ \E nb \in PoolNotebooks, ok \in BOOLEAN : RenderFinish(nb, ok)
    \/ \E nb \in PoolNotebooks : CollectRender(nb)
    \/ SaveManifest
    \/ \E t \in Trees : RebuildSite(t)
    \/ \E n \in Names, dry \in BOOLEAN, w \in 1..MaxWorkers : StartPublish(n, dry, w)
    \/ \E p \in Paths : ScanFile(p)
    \/ ScanDone
    \/ \E p \in Paths : TaskStart(p)
    \/ \E p \in Paths, ok \in BOOLEAN : TaskFinish(p, ok)
    \/ \E p \in Paths : Collect(p)
    \/ AbortJoin
    \/ \E ok \in BOOLEAN : PutManifest(ok)

\* The two worker pools: a render run over five notebooks, and a publish.
SpecPools == InitPools /\ [][NextPools]_vars

\* The runs of the pipeline specification: a fetch of one date with every
\* query, a render of the configured dates that have data.
PipelineFetchArgs ==
    {args \in FetchArgs :
        /\ args.date # None
        /\ ~args.sync
        /\ ~args.check_only
        /\ args.query = None
        /\ args.max_days = None}

PipelineRenderArgs ==
    {args \in RenderArgs :
        /\ args.date = None
        /\ args.notebook = None
        /\ ~args.force
        /\ ~args.latest_only
        /\ ~args.allow_stale}

\* The first day's data has been fetched; nothing has been rendered.
InitPipeline ==
    /\ today = FirstToday
    /\ cfg = DateConfig("list", None, None, None, <<1, MaxDay>>)
    /\ qsrc = [q \in Queries |-> 1]
    /\ LET data == FetchedData([d \in {1} |-> "fresh"])
       IN  dirs = data.dirs /\ dmfile = data.file
    /\ fr = FetchIdle
    /\ nbsrc = [nb \in Notebooks |-> 1]
    /\ rmfile = NoRenderedFile
    /\ html = EmptyFn
    /\ rr = RenderIdle
    /\ StaleAtRest
    /\ StoreAtRest
    /\ ResolveAtRest
    /\ FileAtRest
    /\ SchemaAtRest
    /\ OverlapAtRest
    /\ CopyAtRest
    /\ PublishAtRest
    /\ HashAtRest

NextPipeline ==
    \/ \E args \in PipelineFetchArgs : StartFetch(args)
    \/ \E ok \in BOOLEAN : FetchItem(ok)
    \/ UpdateManifest
    \/ \E args \in PipelineRenderArgs : StartRender(args)
    \/ StaleGate
    \/ BeginDate
    \/ \E nb \in Notebooks : RenderStart(nb)
    \/ \E nb \in Notebooks, ok \in BOOLEAN : RenderFinish(nb, ok)
    \/ \E nb \in Notebooks : CollectRender(nb)
    \/ SaveManifest
    \/ \E nb \in Notebooks, v \in 1..NumNbVersions : EditNotebook(nb, v)

\* Fetch runs and render runs on the same data directory, one after another
\* or overlapping.
SpecPipeline == InitPipeline /\ [][NextPipeline]_vars

\* The runs of the copy specification: a render of every configured date.
CopyRenderArgs ==
    {args \in RenderArgs :
        /\ args.date = None
        /\ args.notebook \in {None, 1}
        /\ ~args.force
        /\ ~args.latest_only
        /\ ~args.allow_stale}

\* Both days' data has been fetched; nothing has been rendered or copied.
InitCopy ==
    /\ today = FirstToday
    /\ cfg = DateConfig("list", None, None, None, <<1, MaxDay>>)
    /\ qsrc = [q \in Queries |-> 1]
    /\ LET data == FetchedData([d \in Days |-> "fresh"])
       IN  dirs = data.dirs /\ dmfile = data.file
    /\ FetchOff
    /\ nbsrc = [nb \in Notebooks |-> 1]
    /\ rmfile = NoRenderedFile
    /\ html = EmptyFn
    /\ rr = RenderIdle
    /\ dd = CopyIdle
    /\ StaleAtRest
    /\ StoreAtRest
    /\ ResolveAtRest
    /\ FileAtRest
    /\ SchemaAtRest
    /\ OverlapAtRest
    /\ PublishAtRest
    /\ HashAtRest

NextCopy ==
    \/ \E args \in CopyRenderArgs : StartRender(args)
    \/ StaleGate
    \/ BeginDate
    \/ \E nb \in Notebooks : RenderStart(nb)
    \/ \E nb \in Notebooks, ok \in BOOLEAN : RenderFinish(nb, ok)
    \/ \E nb \in Notebooks : CollectRender(nb)
    \/ SaveManifest
    \/ CopyDataToDist

\* Render runs followed by copies of the data to site/dist.
SpecCopy == InitCopy /\ [][NextCopy]_vars

InitHash ==
    /\ \E src \in Sources : qf = [HashIdle EXCEPT !.source = src]
    /\ StaleAtRest
    /\ FetchAtRest
    /\ StoreAtRest
    /\ ResolveAtRest
    /\ FileAtRest
    /\ SchemaAtRest
    /\ OverlapAtRest
    /\ CopyAtRest
    /\ RenderAtRest
    /\ PublishAtRest

NextHash ==
    \/ ComputeHash
    \/ \E i \in 1..MaxSourceLen, line \in Trivia : InsertTrivia(i, line)
    \/ \E i \in 1..MaxSourceLen : RemoveTrivia(i)
    \/ \E i \in 1..MaxSourceLen : Respace(i)
    \/ \E t \in Texts : WriteDocstring(t)
    \/ DeleteDocstring

\* One query function under edits of its formatting and documentation, its
\* fingerprint computed at any time.
SpecHash == InitHash /\ [][NextHash]_vars

InitStages == InitFetch \/ InitRender

NextStages ==
    \/ \E args \in FetchArgs : StartFetch(args)
    \/ \E ok \in BOOLEAN : FetchItem(ok)
    \/ UpdateManifest
    \/ CrashFetch
    \/ \E q \in Queries, v \in Logic \cup {Broken} : EditQuery(q, v)
    \/ \E args \in RenderArgs : StartRender(args)
    \/ StaleGate
    \/ BeginDate
    \/ \E nb \in Notebooks : RenderStart(nb)
    \/ \E nb \in Notebooks, ok \in BOOLEAN : RenderFinish(nb, ok)
    \/ \E nb \in Notebooks : CollectRender(nb)
    \/ SaveManifest
    \/ CrashRender
    \/ \E nb \in Notebooks, v \in 1..NumNbVersions : EditNotebook(nb, v)

\* A fetch stage or a render stage, each run on its own.
SpecStages == InitStages /\ [][NextStages]_vars

(***************************************************************************)
(* Staleness, fetch and render claims                                      *)
(***************************************************************************)

HasRecord(m, d, q) == d \in DOMAIN m.date_queries /\ q \in DOMAIN m.date_queries[d]

ReportsFor(d, q) ==
    {i \in DOMAIN stale.reports :
       stale.reports[i].date = d /\ stale.reports[i].query_id = q}

\* C1: check_staleness reports a (date, query) of the scope exactly once with
\* reason data_missing when the manifest has no record of it, exactly once
\* with reason query_changed when the recorded hash differs from the current
\* one, and not at all when the hashes are equal; it reports nothing else.
C1_StalenessContract ==
    stale.pc = "returned" =>
        /\ \A i \in DOMAIN stale.reports :
              /\ stale.reports[i].date \in SeqRange(stale.dates)
              /\ stale.reports[i].query_id \in Queries
        /\ \A d \in SeqRange(stale.dates), q \in Queries :
              LET has == HasRecord(stale.manifest, d, q)
                  differs == has /\ stale.manifest.date_queries[d][q].query_hash
                                      # stale.current_hashes[q]
              IN  /\ Cardinality(ReportsFor(d, q)) = IF ~has \/ differs THEN 1 ELSE 0
                  /\ \A i \in ReportsFor(d, q) :
                        /\ stale.reports[i].reason = "data_missing" <=> ~has
                        /\ stale.reports[i].reason = "query_changed" <=> differs

C1_Witness ==
    /\ stale.pc = "returned"
    /\ \E i, j \in DOMAIN stale.reports :
          /\ stale.reports[i].reason = "data_missing"
          /\ stale.reports[j].reason = "query_changed"
    /\ \E d \in SeqRange(stale.dates), q \in Queries :
          /\ HasRecord(stale.manifest, d, q)
          /\ ReportsFor(d, q) = {}

\* A (date, query) of the dates to render has no record in the data manifest,
\* or a record made with another query hash than the current one.
StaleInScope ==
    \E d \in SeqRange(rr.dates_to_render), q \in Queries :
       \/ ~dmfile.exists
       \/ ~HasRecord(dmfile.m, d, q)
       \/ dmfile.m.date_queries[d][q].query_hash # compute_all_query_hashes(qsrc)[q]

\* C2: a render run whose selected dates hold a stale (date, query) and that
\* is not given allow_stale exits with status 1 having started no render and
\* written nothing; given allow_stale (and a configured notebook) it goes on
\* to render the selected dates.
C2_RenderGate ==
    [][(rr.pc = "gate" /\ StaleInScope) =>
          IF ~rr.allow_stale
          THEN /\ rr'.pc = "blocked"
               /\ rr'.exit = 1
               /\ rr'.started = {}
               /\ rr'.task = EmptyFn
               /\ rmfile' = rmfile
               /\ html' = html
          ELSE rr.notebook # UnknownNotebook =>
                  /\ rr'.pc = "dates"
                  /\ rr'.dates_to_render = rr.dates_to_render
                  /\ rr'.dates_to_render # <<>>]_rr

C2_Witness ==
    /\ rr.pc = "blocked"
    /\ rr.exit = 1
    /\ rr.stale_reports # <<>>
    /\ rr.started = {}
    /\ rmfile.exists
    /\ rmfile = rr.file0

NoRecord == [query_hash |-> NoHash, fetched_at |-> None]

RecordOf(file, d, q) ==
    IF file.exists /\ HasRecord(file.m, d, q) THEN file.m.date_queries[d][q]
    ELSE NoRecord

NoRendered == [rendered_at |-> None, notebook_hash |-> NoHash, html_path |-> <<>>]

RenderedOf(m, d, nb) ==
    IF d \in DOMAIN m.dates /\ nb \in DOMAIN m.dates[d] THEN m.dates[d][nb]
    ELSE NoRendered

\* C3: a manifest record that a fetch run or a render run has written or
\* changed belongs to a work item that succeeded in that run; an item that
\* raised gets no record and its old record, if any, stays as it was.
C3_SuccessesOnly ==
    /\ fr.pc \notin {"off", "idle"} =>
          \A d \in Days, q \in Queries :
             RecordOf(dmfile, d, q) \notin {NoRecord, RecordOf(fr.file0, d, q)}
                => <<d, q>> \in fr.succeeded
    /\ rr.pc \notin {"off", "idle"} =>
          \A d \in Days, nb \in Notebooks :
             /\ RenderedOf(load_manifest(rmfile), d, nb)
                   \notin {NoRendered, RenderedOf(load_manifest(rr.file0), d, nb)}
                   => <<d, nb>> \in rr.succeeded
             /\ (rr.pc # "crashed" /\
                 RenderedOf(rr.manifest, d, nb)
                   \notin {NoRendered, RenderedOf(load_manifest(rr.file0), d, nb)})
                   => <<d, nb>> \in rr.succeeded

C3_Witness ==
    /\ fr.pc = "returned"
    /\ Cardinality(fr.attempted) = 3
    /\ Cardinality(fr.succeeded) = 2
    /\ \A it \in fr.succeeded :
          RecordOf(dmfile, it[1], it[2]) =
             [query_hash |-> fr.query_hashes[it[2]], fetched_at |-> fr.run]
    /\ \E it \in fr.attempted \ fr.succeeded :
          /\ RecordOf(dmfile, it[1], it[2]) = RecordOf(fr.file0, it[1], it[2])
          /\ RecordOf(dmfile, it[1], it[2]) # NoRecord

Before(a, b) == a[1] < b[1] \/ (a[1] = b[1] /\ a[2] < b[2])

C5_ImmediatePersistence ==
    /\ fr.pc \notin {"off", "idle"} =>
          \A it \in fr.succeeded :
             RecordOf(dmfile, it[1], it[2]) # RecordOf(fr.file0, it[1], it[2])
    /\ rr.pc \notin {"off", "idle"} =>
          \A it \in rr.succeeded :
             RenderedOf(load_manifest(rmfile), it[1], it[2])
                # RenderedOf(load_manifest(rr.file0), it[1], it[2])

(***************************************************************************)
(* Publisher claims                                                        *)
(***************************************************************************)

BodyBlobs(obj) == {obj.body[i].blob : i \in DOMAIN obj.body}

\* Uploads of blob key k that this run completed.
UploadsOf(k) ==
    Cardinality({p \in DOMAIN pub.task :
                   blob_key(dist, p) = k /\ pub.task[p] \in {"ok", "seen"}})

\* C6: every blob a stored deployment manifest names is present in the store,
\* and a publish that wrote its manifest found each referenced blob present
\* at its scan or uploaded it itself.
C6_PublishOrdering ==
    /\ \A n \in Names : manifests[n].present => BodyBlobs(manifests[n]) \subseteq blobs
    /\ pub.pc = "done" =>
         /\ manifests[pub.name] = Object(json_dumps(pub.manifest))
         /\ \A p \in files_to_process(dist) :
              \/ blob_key(dist, p) \in pub.blobs0
              \/ UploadsOf(blob_key(dist, p)) >= 1

C6_Witness ==
    /\ pub.pc = "done"
    /\ pub.existing_blobs # {}
    /\ \E p \in DOMAIN pub.task : pub.task[p] = "seen"

\* C7: once an upload of the run has failed, the run never reaches the
\* manifest upload or a normal return, and the stored manifest of the
\* deployment name is the one that was there when the run started.
C7_PublishAbort ==
    (\E p \in DOMAIN pub.task : pub.task[p] \in Failed) =>
        /\ pub.pc \in {"upload", "abort", "failed"}
        /\ manifests[pub.name] = pub.before

C7_Witness ==
    /\ pub.pc = "failed"
    /\ \E p \in DOMAIN pub.task : pub.task[p] = "error"
    /\ \E p \in DOMAIN pub.task : pub.task[p] = "seen"
    /\ pub.before.present
    /\ pub.before.body # json_dumps(pub.manifest)

\* C8: after an existence check answered with an error other than 404 the
\* run has failed, the checked file is not on the upload list, no upload was
\* submitted, the store holds the blobs it held at the start and the stored
\* manifest is unchanged.
C8_ExistsErrorAborts ==
    pub.head_error # NoFile =>
        /\ pub.pc = "failed"
        /\ pub.head_error \notin pub.blobs_to_upload
        /\ DOMAIN pub.task = {}
        /\ blobs = pub.blobs0
        /\ manifests[pub.name] = pub.before

C8_Witness ==
    /\ pub.head_error # NoFile
    /\ pub.blobs_to_upload # {}
    /\ pub.before.present

\* C9: two files with identical bytes have the same blob key, and a completed
\* publish to a store that did not hold that blob uploaded it exactly once.
C9_PublisherDedup ==
    \A p, q \in files_to_process(dist) :
        (p # q /\ dist[p] = dist[q]) =>
            /\ blob_key(dist, p) = blob_key(dist, q)
            /\ (pub.pc = "done" /\ blob_key(dist, p) \notin pub.blobs0) =>
                   UploadsOf(blob_key(dist, p)) = 1

\* C10: a publish of a tree under a name that was already published since the
\* tree last changed uploads nothing, and when it completes the stored
\* manifest equals the one the earlier publish wrote.
C10_PublisherIdempotent ==
    pub.repeat =>
        /\ pub.blobs_to_upload = {}
        /\ DOMAIN pub.task = {}
        /\ blobs = pub.blobs0
        /\ pub.pc = "done" => manifests[pub.name] = pub.before

C10_Witness ==
    /\ pub.repeat
    /\ pub.pc = "done"
    /\ pub.before.present
    /\ Len(pub.manifest) >= 2
    /\ pub.manifest # json_dumps(pub.manifest)

\* C11: a step of a publish never removes a blob, never puts a blob key that
\* the store already holds, and changes no stored manifest but the one of the
\* name the publish was called with.
C11_AppendOnly ==
    [][/\ blobs \subseteq blobs'
       /\ \A n \in Names :
             manifests'[n] # manifests[n] => (n = pub.name /\ pub.pc = "manifest")
       /\ \A p \in DOMAIN pub.task :
             (pub.task[p] = "running" /\ pub'.task[p] = "ok")
                => blob_key(dist, p) \notin blobs]_pubVars

(***************************************************************************)
(* Data manifest claims                                                    *)
(***************************************************************************)

MaxOf(S) == CHOOSE x \in S : \A y \in S : y <= x

StrictlyDescending(seq) == \A i, j \in DOMAIN seq : i < j => seq[i] > seq[j]

RecordsOf(file, d) ==
    IF file.exists /\ d \in DOMAIN file.m.date_queries
    THEN file.m.date_queries[d] ELSE EmptyFn

\* The retention cutoff of the last update_manifest call.
Cutoff == StoreToday - ms.max_days

\* The dates the last call had to prune: their directory was there and is
\* older than the cutoff.
Pruned == IF ms.max_days = None THEN {} ELSE {d \in ms.scanned : d < Cutoff}

\* C12: in a manifest update_manifest wrote, "dates" is strictly descending
\* (newest first, no date twice) and "latest" is the greatest of "dates", or
\* null when "dates" is empty.
C12_LatestIsMax ==
    ms.pc = "written" =>
        /\ dmfile.exists
        /\ StrictlyDescending(dmfile.m.dates)
        /\ dmfile.m.latest = IF dmfile.m.dates = <<>> THEN None
                             ELSE MaxOf(SeqRange(dmfile.m.dates))

C12_Witness ==
    /\ ms.pc = "written"
    /\ ms.writes = 2
    /\ Len(dmfile.m.dates) = NumStoreDays
    /\ dmfile.m.latest = NumStoreDays
    /\ ms.before.m.latest # dmfile.m.latest

\* C13: after a manifest write, every date that has a record in
\* "date_queries" is listed in "dates".
C13_RecordedDatesKnown ==
    ms.pc = "written" =>
        \A d \in StoreDays :
           RecordsOf(dmfile, d) # EmptyFn => d \in SeqRange(dmfile.m.dates)

\* C14: after an update_manifest call with max_days set, no date keeps
\* records without its directory, and no date keeps its directory while the
\* records it had are gone.
C14_PruneTogether ==
    (ms.pc = "written" /\ ms.max_days # None) =>
        \A d \in StoreDays :
           /\ RecordsOf(dmfile, d) # EmptyFn => d \in dirs
           /\ (d \in dirs /\ RecordsOf(ms.before, d) # EmptyFn)
                 => RecordsOf(dmfile, d) # EmptyFn

\* C15: an update_manifest call removes exactly the date directories strictly
\* older than the cutoff, with their records and their entry in "dates"; a
\* directory at or after the cutoff stays, listed, and the records of a date
\* the call had no results for are those of the manifest before.
C15_StrictCutoff ==
    ms.pc = "written" =>
        \A d \in ms.scanned :
           IF d \in Pruned
           THEN /\ d \notin dirs
                /\ d \notin SeqRange(dmfile.m.dates)
                /\ d \notin DOMAIN dmfile.m.date_queries
           ELSE /\ d \in dirs
                /\ d \in SeqRange(dmfile.m.dates)
                /\ d \notin DOMAIN ms.date_results
                      => RecordsOf(dmfile, d) = RecordsOf(ms.before, d)

C15_Witness ==
    /\ ms.pc = "written"
    /\ ms.scanned = StoreDays
    /\ Cutoff = 2
    /\ \A d \in StoreDays : DOMAIN RecordsOf(ms.before, d) = Queries
    /\ dirs = {2, 3}
    /\ dmfile.m.dates = <<3, 2>>
    /\ DOMAIN dmfile.m.date_queries = {2, 3}
    /\ \A d \in {2, 3} : RecordsOf(dmfile, d) = RecordsOf(ms.before, d)

\* C16: after an update_manifest call, the record of a (date, query) the call
\* had a result for is that result, whole; every other record of a date that
\* was not pruned is the one the manifest held before.
C16_PerUnitMerge ==
    ms.pc = "written" =>
        \A d \in StoreDays \ Pruned :
           LET new == IF d \in DOMAIN ms.date_results
                      THEN ms.date_results[d] ELSE EmptyFn
               old == RecordsOf(ms.before, d)
               now == RecordsOf(dmfile, d)
           IN  /\ DOMAIN now = DOMAIN old \cup DOMAIN new
               /\ \A q \in DOMAIN now :
                     now[q] = IF q \in DOMAIN new THEN new[q] ELSE old[q]

C16_Witness ==
    /\ ms.pc = "written"
    /\ \E d \in StoreDays \ Pruned :
          /\ DOMAIN RecordsOf(ms.before, d) = Queries
          /\ d \in DOMAIN ms.date_results
          /\ DOMAIN ms.date_results[d] = {1}
          /\ RecordsOf(dmfile, d)[1].fetched_at = 2
          /\ RecordsOf(dmfile, d)[2].fetched_at = 1
    /\ \E d \in StoreDays \ (Pruned \cup DOMAIN ms.date_results) :
          /\ RecordsOf(ms.before, d) # EmptyFn
          /\ RecordsOf(dmfile, d) = RecordsOf(ms.before, d)

\* C17: after the write that follows the deletion of a date directory from
\* outside, "dates" does not list that date (unless the run made the
\* directory again), "dates" is the directories that exist, and "latest" is
\* the newest of them.
C17_SelfHealing ==
    ms.pc = "written" =>
        /\ \A d \in ms.deleted \ DOMAIN ms.date_results :
              d \notin SeqRange(dmfile.m.dates)
        /\ SeqRange(dmfile.m.dates) = dirs
        /\ dmfile.m.latest = IF dirs = {} THEN None ELSE MaxOf(dirs)

C17_Witness ==
    /\ ms.pc = "written"
    /\ \E d \in ms.deleted :
          /\ ms.before.m.latest = d
          /\ d \notin SeqRange(dmfile.m.dates)
          /\ dmfile.m.latest # None
          /\ dmfile.m.latest < d

(***************************************************************************)
(* Fingerprint claims                                                      *)
(***************************************************************************)

\* check_staleness over the configured dates, on the data directory as it is.
CurrentReports ==
    check_staleness(compute_all_query_hashes(qsrc), load_data_manifest(dmfile),
                    resolve_dates(cfg, None, today).dates)

\* C18: whatever the manifest holds, check_staleness reports every configured
\* (date, query) whose current hash is the sentinel "error".
C18_ErrorAlwaysStale ==
    fr.pc # "off" =>
        \A d \in SeqRange(resolve_dates(cfg, None, today).dates), q \in Queries :
           compute_all_query_hashes(qsrc)[q] = ErrorHash =>
              \E i \in DOMAIN CurrentReports :
                 /\ CurrentReports[i].date = d
                 /\ CurrentReports[i].query_id = q

\* C19: the hashes a fetch run computed have an entry for every configured
\* query: "error" for a query that cannot be hashed, the hash of its logic
\* for every other one.
C19_HashesTotal ==
    fr.pc \in {"fetching", "update", "returned", "raised"} =>
        /\ DOMAIN fr.query_hashes = Queries
        /\ \A q \in Queries :
              fr.query_hashes[q] = IF qsrc[q] = Broken THEN ErrorHash
                                   ELSE <<"sha256", qsrc[q]>>

C19_Witness ==
    /\ fr.pc = "fetching"
    /\ qsrc[1] = Broken
    /\ fr.query_hashes[1] = ErrorHash
    /\ fr.query_hashes[2] = <<"sha256", qsrc[2]>>

(***************************************************************************)
(* Date resolver claims                                                    *)
(***************************************************************************)

\* C20: the list resolve_dates returns is strictly descending (newest first,
\* no date twice); in list mode without an override date its dates are
\* exactly the configured ones.
C20_ResolveOrdered ==
    rd.pc = "returned" =>
        /\ StrictlyDescending(rd.result.dates)
        /\ (rd.config.mode = "list" /\ rd.override_date = None) =>
              SeqRange(rd.result.dates) = SeqRange(rd.config.list)

\* The end of the range policy: the configured one, or yesterday.
RangeEnd == IF rd.config.end # None THEN rd.config.end ELSE ResolveToday - 1

\* C21: a resolve_dates call returns no list when the mode is not rolling,
\* range or list, and none when the range policy starts after its end.
C21_ConfigErrors ==
    rd.pc = "returned" =>
        /\ rd.config.mode \in {"rolling", "range", "list"}
        /\ rd.config.mode = "range" => rd.config.start <= RangeEnd

\* C22: in rolling mode with window w on day T, resolve_dates returns T-1,
\* T-2, ... in that order, as many of the w days as are not before the start
\* floor (the floor itself is kept).
C22_RollingWindow ==
    (rd.pc = "returned" /\ rd.config.mode = "rolling" /\ rd.override_date = None) =>
        LET kept == {i \in 1..rd.config.window :
                       rd.config.start = None \/ ResolveToday - i >= rd.config.start}
        IN  rd.result.dates = [i \in 1..Cardinality(kept) |-> ResolveToday - i]

C22_Witness ==
    /\ rd.pc = "returned"
    /\ rd.config.mode = "rolling"
    /\ rd.override_date = None
    /\ rd.config.window = 3
    /\ rd.config.start = ResolveToday - 2
    /\ rd.result.dates = <<ResolveToday - 1, ResolveToday - 2>>

(***************************************************************************)
(* Run outcome claims                                                      *)
(***************************************************************************)

\* C23: a fetch run or a render run that ended exits non-zero when an item
\* it attempted failed, and exits 0 when it had items and all succeeded.
C23_ExitStatus ==
    /\ fr.pc \in {"returned", "raised"} =>
          /\ fr.attempted \ fr.succeeded # {} => fr.exit # 0
          /\ (fr.attempted # {} /\ fr.attempted = fr.succeeded) => fr.exit = 0
    /\ (rr.pc = "returned" /\ rr.selected # {}) =>
          /\ rr.failed # {} => rr.exit # 0
          /\ rr.failed = {} => rr.exit = 0

\* The reports of check_staleness for one date, on the manifest file as is.
ReportedNow(d, q) ==
    LET reports == check_staleness(compute_all_query_hashes(qsrc),
                                   load_data_manifest(dmfile), <<d>>)
    IN  \E i \in DOMAIN reports : reports[i].query_id = q

ReportedAtStart(d, q) ==
    LET reports == check_staleness(fr.query_hashes,
                                   load_data_manifest(fr.file0), <<d>>)
    IN  \E i \in DOMAIN reports : reports[i].query_id = q

\* What a sync run started now over the same dates would select.
SyncSelection ==
    LET args == [date |-> None, sync |-> TRUE, check_only |-> FALSE,
                 query |-> None, max_days |-> None]
        reports == check_staleness(compute_all_query_hashes(qsrc),
                                   load_data_manifest(dmfile), fr.dates)
    IN  Items(to_fetch_of(args, reports, today))

\* C24: in a fetch run no item is fetched twice, and an item that was stale
\* when the run began and whose fetch failed is still reported stale after
\* the run; when it came from a sync, a sync over the same dates selects it
\* again.
C24_FailedStaysStale ==
    /\ fr.pc \in {"fetching", "update", "returned"} =>
          fr.calls = Cardinality(fr.attempted)
    /\ fr.pc = "returned" =>
          \A it \in fr.attempted \ fr.succeeded :
             ReportedAtStart(it[1], it[2]) =>
                /\ ReportedNow(it[1], it[2])
                /\ fr.sync => it \in SyncSelection

C24_Witness ==
    /\ fr.pc = "returned"
    /\ fr.sync
    /\ fr.run = 2
    /\ fr.succeeded # {}
    /\ \E it \in fr.attempted \ fr.succeeded :
          /\ ReportedAtStart(it[1], it[2])
          /\ ReportedNow(it[1], it[2])
          /\ it \in SyncSelection

(***************************************************************************)
(* Manifest file claims                                                    *)
(***************************************************************************)

\* C25: a manifest write is atomic: a load made while a write is in
\* progress gives either the complete previous content or the complete new
\* content, never an empty or partial document.
C25_AtomicWrite ==
    (mf.loads > 0 /\ mf.during /\ mf.wold # DecodeError) =>
        mf.result \in {mf.wold, Document(mf.wdoc)}

\* C26: a load of the manifest never fails: a missing file and a corrupt
\* (cut short) file both give the empty structure, and a second load with no
\* write in between gives what the first one gave.
C26_TolerantLoad ==
    mf.loads > 0 =>
        /\ mf.missing => mf.result = EmptyStructure
        /\ mf.result # DecodeError
        /\ mf.repeat => mf.result = mf.prev

(***************************************************************************)
(* Schema tolerance claim                                                  *)
(***************************************************************************)

\* The records of the persisted manifest that the call neither pruned nor
\* produced again.
KeptRecords ==
    {d \in DOMAIN sc.p.m.date_queries :
        /\ d \notin DOMAIN sc.date_results
        /\ d \notin dates_to_remove_of(sc.dirset, sc.max_days, SchemaToday)}

\* C27: on a persisted manifest with any subset of its fields absent,
\* check_staleness and update_manifest complete without error, an absent
\* field counts as empty, and update_manifest keeps the records that were
\* present.
C27_SchemaTolerance ==
    /\ sc.pc # "raised"
    /\ sc.pc = "checked" =>
          sc.reports = check_staleness(SchemaHashes, sc.p.m, sort_desc(SchemaDays))
    /\ sc.pc = "updated" =>
          \A d \in KeptRecords :
              /\ d \in DOMAIN sc.after.m.date_queries
              /\ sc.after.m.date_queries[d] = sc.p.m.date_queries[d]

(***************************************************************************)
(* Overlapping runs claim                                                  *)
(***************************************************************************)

OverlapDone == \A r \in OverlapRuns : ov.run[r].pc = "written"

\* Run r produced a record for (d, q).
Produced(r, d, q) ==
    d \in DOMAIN ov.run[r].date_results /\ q \in DOMAIN ov.run[r].date_results[d]

\* The final manifest holds for (d, q) the record some run produced.
Held(d, q) ==
    /\ d \in DOMAIN ov.file.m.date_queries
    /\ q \in DOMAIN ov.file.m.date_queries[d]
    /\ \E o \in OverlapRuns :
          /\ Produced(o, d, q)
          /\ ov.file.m.date_queries[d][q] = ov.run[o].date_results[d][q]

\* C28: runs whose update_manifest calls were serialized never lose a record:
\* every record a run produced is in the final manifest, as that run's record
\* or as another run's record for the same date and query.
C28_SerializedKeep ==
    (OverlapDone /\ ~ov.overlapped) =>
        \A r \in OverlapRuns, d \in OverlapDays, q \in Queries :
            Produced(r, d, q) => Held(d, q)

\* C28, the unsafe interleaving: both calls loaded before either wrote, and a
\* record one run produced is absent from the final manifest.
C28_Witness ==
    /\ OverlapDone
    /\ ov.overlapped
    /\ \E r \in OverlapRuns, d \in OverlapDays, q \in Queries :
          Produced(r, d, q) /\ ~Held(d, q)

(***************************************************************************)
(* Render coordination claim                                               *)
(***************************************************************************)

\* The notebook records of a rendered manifest.
RecordsIn(m) ==
    UNION {{<<d, nb, m.dates[d][nb]>> : nb \in DOMAIN m.dates[d]} : d \in DOMAIN m.dates}

\* A step of a render worker: it takes a task, or it finishes one.
WorkerStep ==
    /\ rr.pc = "pool"
    /\ rr'.pc = "pool"
    /\ \E nb \in DOMAIN rr.task :
          \/ rr.task[nb] = "pending" /\ rr'.task[nb] = "running"
          \/ rr.task[nb] = "running" /\ rr'.task[nb] \in {"ok", "error"}

\* The coordinator handles the reported success of the task of nb.
ReportedStep(nb) ==
    /\ rr.pc = "pool"
    /\ nb \in DOMAIN rr.task
    /\ rr.task[nb] = "ok"
    /\ rr'.task[nb] = Seen("ok")

\* C29: within a render run a worker step leaves the manifest, in memory and
\* on disk, as it was; a record enters the manifest only when the coordinator
\* handles a result a worker has reported; and the file is written only by
\* the coordinator at the end of the run, with no task running.
C29_CoordinatorOnly ==
    [][/\ WorkerStep => (rr'.manifest = rr.manifest /\ rmfile' = rmfile)
       /\ (rr.pc \in {"dates", "pool"} /\ rr'.pc \in {"dates", "pool", "returned"}
           /\ RecordsIn(rr'.manifest) # RecordsIn(rr.manifest)) =>
             \E nb \in DOMAIN rr.task :
                /\ ReportedStep(nb)
                /\ \A x \in RecordsIn(rr'.manifest) \ RecordsIn(rr.manifest) :
                      x[1] = rr.date /\ x[2] = nb
       /\ rmfile' # rmfile =>
             (rr.pc = "dates" /\ rr'.pc = "returned" /\ RenderRunning = {})]_vars

\* The coordinator has recorded one notebook's result while the worker of
\* another is still running.
C29_Witness ==
    /\ rr.pc = "pool"
    /\ RenderRunning # {}
    /\ \E nb \in DOMAIN rr.task :
          /\ rr.task[nb] = Seen("ok")
          /\ nb \in DOMAIN rr.manifest.dates[rr.date]
          /\ rr.manifest.dates[rr.date][nb].rendered_at = rr.run

(***************************************************************************)
(* Worker pool claim                                                       *)
(***************************************************************************)

RenderPending == {nb \in DOMAIN rr.task : rr.task[nb] = "pending"}

\* C30: at every moment of a render run at most 4 render tasks are executing,
\* and no more than min(number of selected notebooks, 4); at every moment of
\* a publish at most max_workers uploads are in flight.  A task beyond the
\* cap stays pending.
C30_BoundedPools ==
    /\ Cardinality(RenderRunning) <= PoolCap
    /\ rr.pc = "pool" => Cardinality(RenderRunning) <= min(Cardinality(rr.notebooks), PoolCap)
    /\ Cardinality(Running) <= pub.max_workers

\* Five notebooks were submitted: four are executing and the fifth waits.
C30_Witness ==
    /\ rr.pc = "pool"
    /\ Cardinality(RenderRunning) = PoolCap
    /\ RenderPending # {}

\* A publish with one worker: one upload is in flight and another waits.
C30_PublishBinds ==
    /\ Cardinality(Running) = pub.max_workers
    /\ \E p \in DOMAIN pub.task : pub.task[p] = "pending"

(***************************************************************************)
(* Publish cancellation claim                                              *)
(***************************************************************************)

\* C31: once upload_site has detected an upload failure, no upload that has
\* not started yet is started; the uploads in flight finish before the error
\* reaches the caller.
C31_PublishCancellation ==
    /\ [][pub.pc = "abort" =>
            \A p \in DOMAIN pub.task :
                pub.task[p] = "pending" => pub'.task[p] = "pending"]_vars
    /\ [](pub.pc = "failed" => Running = {})

(***************************************************************************)
(* Incremental run claims                                                  *)
(***************************************************************************)

\* The (date, query) pairs the staleness report of the current fetch run
\* listed when the run began.
ReportedPairs ==
    LET reports == check_staleness(fr.query_hashes, load_data_manifest(fr.file0),
                                   fr.dates)
    IN  {<<reports[i].date, reports[i].query_id>> : i \in DOMAIN reports}

\* C32: a --sync fetch run calls a producer only for the pairs its staleness
\* report lists; with an empty report it calls none and leaves the data and
\* the manifest as they were.
C32_IncrementalFetch ==
    (fr.sync /\ fr.pc \in {"fetching", "update", "returned"}) =>
        /\ fr.attempted \subseteq ReportedPairs
        /\ ReportedPairs = {} =>
              /\ fr.calls = 0
              /\ fr.pc = "returned" => dmfile = fr.file0

\* The record the render manifest in memory holds for (date, nb), or NoRendered.
HeldRecord(date, nb) ==
    IF date \in DOMAIN rr.manifest.dates /\ nb \in DOMAIN rr.manifest.dates[date]
    THEN rr.manifest.dates[date][nb]
    ELSE NoRendered

SourceChanged(date, nb) ==
    HeldRecord(date, nb) = NoRendered
        \/ HeldRecord(date, nb).notebook_hash # hash_notebook(nbsrc[nb])

\* The HTML of the pair's last successful render shows data other than the
\* date's data of now.
DataChanged(date, nb) ==
    /\ HeldRecord(date, nb) # NoRendered
    /\ LET path == HeldRecord(date, nb).html_path
       IN  /\ path \in DOMAIN html
           /\ html[path].date = date
           /\ html[path].data # data_of(dmfile, date)

\* C33: when a render run without --force takes up a date, it submits a
\* notebook of the date for rendering if and only if the notebook's source
\* changed or the date's data was produced again since the pair's last
\* successful render.
C33_IncrementalRender ==
    [][(rr.pc = "dates" /\ rr'.pc \in {"dates", "pool"} /\ rr'.next = rr.next + 1
        /\ ~rr.force) =>
          \A nb \in rr.notebooks :
              nb \in DOMAIN rr'.task <=>
                  (SourceChanged(rr'.date, nb) \/ DataChanged(rr'.date, nb))]_vars

(***************************************************************************)
(* Data copy claim                                                         *)
(***************************************************************************)

\* The dates with at least one rendered notebook recorded in the rendered
\* manifest.
DatesWithRenders == {d \in load_rendered_dates(rmfile) : DOMAIN rmfile.m.dates[d] # {}}

\* C34: copy_data_to_dist copies the data of a date only if the rendered
\* manifest records at least one rendered notebook for it.
C34_CopyOnlyRendered ==
    (dd.runs > 0 /\ rr.pc \in RenderEnded) => dd.dates \subseteq DatesWithRenders

(***************************************************************************)
(* Fingerprint formatting claim                                            *)
(***************************************************************************)

\* C35: after edits of whitespace, comments and the leading docstring only,
\* compute_query_hash gives the fingerprint it gave first; with no edit it
\* gives the same fingerprint on every run.
C35_FormattingInvariant == qf.first # <<>> => qf.hash = qf.first

(***************************************************************************)
(* Render summary and selection claims                                     *)
(***************************************************************************)

\* The (date, notebook) pairs of a render run that reached its loop.
RenderPairs == {<<d, nb>> : d \in SeqRange(rr.dates_to_render), nb \in rr.notebooks}

RenderLoopDone == rr.pc = "returned" /\ rr.notebooks # {}

\* C36: at the end of a render run that reached the rendering loop every
\* pair of dates_to_render x notebooks is counted once, as succeeded, skipped
\* or failed, and the failure list has one entry per failed pair.
C36_SummaryAccounts ==
    RenderLoopDone =>
        /\ rr.success_count + rr.skip_count + Cardinality(rr.failed)
              = Cardinality(RenderPairs)
        /\ rr.success_count = Cardinality(rr.succeeded)
        /\ rr.skip_count = Cardinality(RenderPairs \ rr.selected)
        /\ rr.succeeded \cap rr.failed = {}
        /\ rr.succeeded \cup rr.failed = rr.selected
        /\ rr.selected \subseteq RenderPairs

\* A run that ended with a success, a skip and a failure.
C36_Witness ==
    /\ RenderLoopDone
    /\ rr.success_count > 0
    /\ rr.skip_count > 0
    /\ rr.failed # {}

\* The record (date, nb) has in the manifest m matches the notebook's source
\* of now.
MatchingRecord(m, date, nb) ==
    /\ RenderedOf(m, date, nb) # NoRendered
    /\ RenderedOf(m, date, nb).notebook_hash = hash_notebook(nbsrc[nb])

\* C37: when a render run takes up a date, a notebook is left out of the
\* pool if and only if force is off and the manifest holds a record of the
\* pair whose notebook_hash is the current hash of the notebook; and after a
\* run in which the render of a pair failed, the saved manifest holds no
\* matching record of the pair, so that the next run selects it.
C37_SkipIffMatching ==
    /\ [][(rr.pc = "dates" /\ rr'.pc \in {"dates", "pool"} /\ rr'.next = rr.next + 1) =>
            \A nb \in rr.notebooks :
                nb \notin DOMAIN rr'.task <=>
                    (~rr.force /\ MatchingRecord(rr.manifest, rr'.date, nb))]_vars
    /\ [](RenderLoopDone =>
            \A pair \in rr.failed : ~MatchingRecord(rmfile.m, pair[1], pair[2]))

(***************************************************************************)
(* Sync convergence claim                                                  *)
(***************************************************************************)

\* A --sync run has returned: it fetched every pair its staleness report
\* listed, every producer succeeded, and no query has been edited since.
SyncSucceeded ==
    /\ fr.pc = "returned"
    /\ fr.sync
    /\ ReportedPairs # {}
    /\ fr.attempted = ReportedPairs
    /\ fr.succeeded = fr.attempted
    /\ compute_all_query_hashes(qsrc) = fr.query_hashes

\* C38: after a --sync fetch run in which every producer succeeded, with the
\* fingerprints unchanged, a staleness check over the same dates reports
\* nothing, also when the run pruned by --max-days.
C38_SyncConverges ==
    SyncSucceeded =>
        check_staleness(fr.query_hashes, load_data_manifest(dmfile), fr.dates) = <<>>

(***************************************************************************)
(* Rendered manifest claims                                                *)
(***************************************************************************)

\* The (date, notebook) pairs with a record in the saved rendered manifest.
SavedPairs ==
    UNION {{<<d, nb>> : nb \in DOMAIN rmfile.m.dates[d]} : d \in DOMAIN rmfile.m.dates}

SavedPath(pair) == rmfile.m.dates[pair[1]][pair[2]].html_path

\* C39: after render runs across which the latest available date advances,
\* no two dates have records with the same html_path, a record points under
\* latest/ only for the date that is the latest, and the file at a record's
\* html_path was rendered for the record's date.
C39_PathsTruthful ==
    RenderLoopDone =>
        /\ \A p1 \in SavedPairs, p2 \in SavedPairs :
              p1[1] # p2[1] => SavedPath(p1) # SavedPath(p2)
        /\ \A p1 \in SavedPairs :
              /\ SavedPath(p1)[1] = "latest" => p1[1] = rmfile.m.latest_date
              /\ SavedPath(p1) \in DOMAIN html
              /\ html[SavedPath(p1)].date = p1[1]

\* C40: after every render run that saves the manifest, latest_date is a
\* date with at least one rendered-notebook record in the dates map.
C40_LatestHasRecord ==
    RenderLoopDone =>
        /\ rmfile.m.latest_date \in DOMAIN rmfile.m.dates
        /\ DOMAIN rmfile.m.dates[rmfile.m.latest_date] # {}

====
